---- MODULE Spec2Model ----
(***************************************************************************)
(* Shorthand codec of rustc_middle::ty::codec.                             *)
(*                                                                         *)
(* One encoding session (a byte buffer, the type and predicate shorthand   *)
(* caches) followed by a decoder over the finished stream.  Types and      *)
(* predicate kinds are structural values: a discriminant, scalar fields    *)
(* and nested types.  Every integer of the stream is an unsigned LEB128.   *)
(***************************************************************************)
EXTENDS Integers, Sequences, FiniteSets, TLC

VARIABLES
    base,                 \* stream position at which the session's first record starts
    buf,                  \* bytes written since `base`
    type_shorthands,      \* TyEncoder::type_shorthands: Ty -> usize
    predicate_shorthands, \* TyEncoder::predicate_shorthands: PredicateKind -> usize
    trace,                \* history: one event per encode_with_shorthand call
    records,              \* history: one entry per top-level encode
    phase,                \* "encoding" | "panicked" | "decoding"
    ty_rcache,            \* decoder: position -> Ty already decoded there
    dec,                  \* result of the last top-level decode
    session2,             \* a second encoder, with the operations it ran
    tamper,               \* history: what was done to the finished stream
    interner,             \* the type-list interner, with the handles it gave
    arena,                \* the decoder's arena: one entry per allocation
    threads,              \* decoding threads that share one interner table
    matches,              \* the Matches lint pass, with its last call
    doc,                  \* rustdoc's DocContext inside enter_impl_trait calls
    mods,                 \* the crate and the walk of find_nearest_parent_module
    diag,                 \* the call of suggest_constraining_type_params and its diagnostic
    fmt                   \* the last call of format_integer_with_underscore_sep

vars == <<base, buf, type_shorthands, predicate_shorthands, trace, records,
          phase, ty_rcache, dec, session2, tamper, interner, arena, threads,
          matches,
          doc,
          mods,
          diag,
          fmt>>

(***************************************************************************)
(* Bounds of the model.                                                    *)
(***************************************************************************)
MaxOps == 3

\* Operations of the second encoder.
MaxOtherOps == 2

\* Bytes that may be missing at the end of a stream.
MaxCut == 2

\* Lists handed to the interner.
MaxInterns == 3

\* Calls the decoding threads make to the shared interner.
MaxCalls == 4

\* Nodes the lint driver hands to the Matches pass.
MaxVisits == 3

\* Nesting of enter_impl_trait calls.
MaxDepth == 2

\* Definitions of the crate find_nearest_parent_module walks in.
MaxDefs == 4

\* Items of param_names_and_constraints in one call.
MaxRequests == 2

\* Digits of an integer literal handed to format_integer_with_underscore_sep.
MaxDigits == 8

\* Records decoded into the arena or through the allocation-id hook.
MaxAllocs == 2

\* Positions at which a session may start: the very start of a stream, and
\* just below the position from which a two-byte payload's shorthand no
\* longer fits in two LEB128 bytes (2^14 - 0x80 = 16256).
StartOffsets == {0, 16255}

(***************************************************************************)
(* Program constants.                                                      *)
(***************************************************************************)
SHORTHAND_OFFSET == 128

(***************************************************************************)
(* Values.  A kind (TyKind or PredicateKind) is                            *)
(*   [disc, data, list, args]:                                             *)
(* its discriminant, its scalar fields, whether its nested types are held  *)
(* as an interned list (length-prefixed) and its nested types.  A Ty is    *)
(* identified with its kind (interning makes the handle canonical).        *)
(***************************************************************************)
MkKind(disc, data, list, args) ==
    [disc |-> disc, data |-> data, list |-> list, args |-> args]

TyBool    == MkKind(0, <<>>, FALSE, <<>>)
TyU8      == MkKind(3, <<1>>, FALSE, <<>>)
TyForeign == MkKind(6, <<2147483647, 2147483647>>, FALSE, <<>>)
TySliceBool == MkKind(9, <<>>, FALSE, <<TyBool>>)
TySliceU8   == MkKind(9, <<>>, FALSE, <<TyU8>>)
TyTuple     == MkKind(19, <<>>, TRUE, <<TyU8, TySliceU8>>)

TyUniverse ==
    {TyBool, TyU8, TyForeign, TySliceBool, TySliceU8, TyTuple}

\* encode_with_shorthand is generic in the value's variant type.  No TyKind
\* or PredicateKind has a discriminant that is not below SHORTHAND_OFFSET;
\* these stand for a variant type that has one, alone and nested.
TyWide      == MkKind(128, <<>>, FALSE, <<>>)
TySliceWide == MkKind(9, <<>>, FALSE, <<TyWide>>)

WideUniverse == {TyWide, TySliceWide}

PkObjectSafe == MkKind(5, <<7>>, FALSE, <<>>)
PkTypeWF     == MkKind(11, <<>>, FALSE, <<TySliceU8>>)
PkSubtype    == MkKind(7, <<1>>, FALSE, <<TyU8, TySliceU8>>)

MkBinder(bound_vars, body) == [bound_vars |-> bound_vars, body |-> body]

BinderUniverse ==
    { MkBinder(<<>>, PkObjectSafe),
      MkBinder(<<0, 2>>, PkTypeWF),
      MkBinder(<<1>>, PkTypeWF),
      MkBinder(<<0, 2>>, PkSubtype) }

\* A RegionKind is a kind without nested types; a Region is identified
\* with its kind.
ReEarlyBound == MkKind(0, <<5, 1>>, FALSE, <<>>)
ReStatic     == MkKind(3, <<>>, FALSE, <<>>)

RegionUniverse == {ReEarlyBound, ReStatic}

\* A Const is its ConstS: the type, then the ConstKind.
MkConst(ty, kind) == [ty |-> ty, kind |-> kind]

CkParam == MkKind(0, <<0, 1>>, FALSE, <<>>)
CkValue == MkKind(5, <<42>>, FALSE, <<>>)

ConstUniverse == {MkConst(TyU8, CkValue), MkConst(TySliceU8, CkParam)}

\* A slice type that holds TyU8 three levels down.
TySlice2U8 == MkKind(9, <<>>, FALSE, <<TySliceU8>>)
TySlice3U8 == MkKind(9, <<>>, FALSE, <<TySlice2U8>>)

\* Lists of types, as held by FnSig or GeneratorWitness.
TyListUniverse ==
    { <<TyU8, TySliceU8>>, <<TyU8, TyBool>>, <<TySliceU8, TyU8>>, <<>> }

\* The values of the sessions that encode every scalar-wrapping kind.
KindsTyUniverse == {TyU8, TySliceU8, TySlice3U8}

KindsBinderUniverse ==
    {MkBinder(<<0, 2>>, PkTypeWF), MkBinder(<<0, 2>>, PkObjectSafe)}

(***************************************************************************)
(* Cursor codec, write side.                                               *)
(***************************************************************************)
RECURSIVE Leb128(_)
Leb128(n) ==
    IF n < 128 THEN <<n>>
    ELSE <<(n % 128) + 128>> \o Leb128(n \div 128)

\* An encoder in the middle of an operation.
MkEnc(b, tsh, psh, tr, ok) ==
    [buf |-> b, tsh |-> tsh, psh |-> psh, trace |-> tr, ok |-> ok]

emit_usize(e, n) == [e EXCEPT !.buf = @ \o Leb128(n)]

position(e) == base + Len(e.buf)

\* Variant: the caches are shared with the second encoder.
cacheShared(e, sel) ==
    IF sel = "ty" THEN e.tsh @@ session2.enc.tsh
    ELSE e.psh @@ session2.enc.psh

cache(e, sel) == IF sel = "ty" THEN e.tsh ELSE e.psh

variant(value) == value

discriminant_value(v) == v.disc

\* (shorthand as u64) < (1 << leb128_bits), for leb128_bits < 64.  The
\* shorthand is compared by its number of significant bits, which is the
\* same test and needs no 64-bit arithmetic.
RECURSIVE BitLen(_)
BitLen(n) == IF n = 0 THEN 0 ELSE 1 + BitLen(n \div 2)

\* Variant: shorthand <= (1 << leb128_bits).
ShorthandFitsOrEqual(shorthand, leb128_bits) ==
    BitLen(shorthand - 1) <= leb128_bits

\* Variant: the comparison the other way round.
ShorthandFitsFlipped(shorthand, leb128_bits) ==
    BitLen(shorthand) > leb128_bits

ShorthandFits(shorthand, leb128_bits) == BitLen(shorthand) <= leb128_bits

\* Variant: every payload is cached.
ObviousWinAlways(shorthand, leb128_bits) == TRUE

\* Variant: the shift is evaluated whatever the number of bits.
ShiftGuardEager(shorthand, leb128_bits) ==
    [win |-> leb128_bits >= 64 \/ ShorthandFits(shorthand, leb128_bits),
     shifts |-> <<leb128_bits>>]

\* leb128_bits >= 64 || (shorthand as u64) < (1 << leb128_bits), evaluated
\* left to right: the outcome of the test, and the shift amounts of the
\* 64-bit shifts that were evaluated.
ShiftGuard(shorthand, leb128_bits) ==
    IF leb128_bits >= 64
    THEN [win |-> TRUE, shifts |-> <<>>]
    ELSE [win |-> ShorthandFits(shorthand, leb128_bits),
          shifts |-> <<leb128_bits>>]

ObviousWin(shorthand, leb128_bits) == ShiftGuard(shorthand, leb128_bits).win

\* Variant: eight bits counted per LEB128 byte.
Leb128BitsEight(len) == len * 8

\* Variant: one bit more than the payload's bytes can hold.
Leb128BitsOneMore(len) == len * 7 + 1

Leb128Bits(len) == len * 7

\* Variant: the offset left out.
ShorthandNoOffset(start) == start

\* Variant: the shorthand stands for the position two bytes after the start.
ShorthandPastStart(start) == start + 2 + SHORTHAND_OFFSET

\* Variant: the start offset is rounded down to an even position.
ShorthandAligned(start) == start - (start % 2) + SHORTHAND_OFFSET

\* Variant: the offset added twice.
ShorthandOffsetTwice(start) == start + SHORTHAND_OFFSET + SHORTHAND_OFFSET

\* Variant: one byte past the start of the payload.
ShorthandOffByOne(start) == start + SHORTHAND_OFFSET + 1

ShorthandFor(start) == start + SHORTHAND_OFFSET

\* Variant: a discriminant equal to the offset is let through.
DiscriminantOkOrEqual(discriminant) == SHORTHAND_OFFSET >= discriminant

\* Variant: the discriminant is not checked.
DiscriminantOkAlways(discriminant) == TRUE

DiscriminantOk(discriminant) == SHORTHAND_OFFSET > discriminant

\* Variant: every shorthand is recorded in the type cache.
CacheInsertTypeCache(e, sel, value, shorthand) ==
    [e EXCEPT !.tsh = (value :> shorthand) @@ @]

\* Variant: the start of the payload is recorded in place of its shorthand.
CacheInsertStart(e, sel, value, shorthand) ==
    IF sel = "ty"
    THEN [e EXCEPT !.tsh = (value :> shorthand - SHORTHAND_OFFSET) @@ @]
    ELSE [e EXCEPT !.psh = (value :> shorthand - SHORTHAND_OFFSET) @@ @]

CacheInsert(e, sel, value, shorthand) ==
    IF sel = "ty"
    THEN [e EXCEPT !.tsh = (value :> shorthand) @@ @]
    ELSE [e EXCEPT !.psh = (value :> shorthand) @@ @]

\* Variant: the cache is never consulted.
CacheLookupNever(e, sel, value) == <<>>

\* Variant: the predicate cache is never consulted.
CacheLookupTypesOnly(e, sel, value) ==
    IF sel = "ty" /\ value \in DOMAIN cache(e, sel)
    THEN <<cache(e, sel)[value]>>
    ELSE <<>>

CacheLookup(e, sel, value) ==
    IF value \in DOMAIN cache(e, sel)
    THEN <<cache(e, sel)[value]>>
    ELSE <<>>

Event(sel, value, pos, hit, len, inserted, sh, done) ==
    [sel |-> sel, val |-> value, pos |-> pos, hit |-> hit, len |-> len,
     inserted |-> inserted, sh |-> sh, done |-> done]

Log(e, ev) == [e EXCEPT !.trace = Append(@, ev)]

RECURSIVE EmitAll(_, _)
EmitAll(e, ns) ==
    IF ns = <<>> THEN e ELSE EmitAll(emit_usize(e, Head(ns)), Tail(ns))

RECURSIVE encode_with_shorthand(_, _, _), EncodeKind(_, _), EncodeTys(_, _)

\* <Ty as Encodable>::encode
EncodeTy(e, ty) == encode_with_shorthand(e, ty, "ty")

EncodeTys(e, tys) ==
    IF tys = <<>> THEN e ELSE EncodeTys(EncodeTy(e, Head(tys)), Tail(tys))

\* The derived encoding of a kind: the variant index, then the fields.
EncodeKind(e, k) ==
    LET e1 == emit_usize(e, discriminant_value(k))
        e2 == EmitAll(e1, k.data)
        e3 == IF k.list THEN emit_usize(e2, Len(k.args)) ELSE e2
    IN  EncodeTys(e3, k.args)

\* Variant: the payload is written after the shorthand.
EmitShorthandThenPayload(e, sel, value, shorthand) ==
    EncodeKind(Log(emit_usize(e, shorthand),
                   Event(sel, value, position(e), TRUE,
                         Len(Leb128(shorthand)), FALSE, shorthand, TRUE)),
               variant(value))

\* encode_with_shorthand, the value is in the cache: the shorthand is
\* written and the call returns.
EmitShorthand(e, sel, value, shorthand) ==
    Log(emit_usize(e, shorthand),
        Event(sel, value, position(e), TRUE, Len(Leb128(shorthand)), FALSE,
              shorthand, TRUE))

encode_with_shorthand(e, value, sel) ==
    IF ~e.ok THEN e
    ELSE
    LET existing_shorthand == CacheLookup(e, sel, value) IN
    IF existing_shorthand # <<>>
    THEN EmitShorthand(e, sel, value, existing_shorthand[1])
    ELSE
    LET start == position(e)
        e1 == EncodeKind(e, variant(value))
        len == position(e1) - start
        discriminant == discriminant_value(variant(value))
        shorthand == ShorthandFor(start)
        leb128_bits == Leb128Bits(len)
    IN  IF ~e1.ok THEN e1
        ELSE IF ~DiscriminantOk(discriminant)
        THEN Log([e1 EXCEPT !.ok = FALSE],
                 Event(sel, value, start, FALSE, len, FALSE, 0, FALSE))
        ELSE IF ObviousWin(shorthand, leb128_bits)
        THEN Log(CacheInsert(e1, sel, value, shorthand),
                 Event(sel, value, start, FALSE, len, TRUE, shorthand, TRUE))
        ELSE Log(e1, Event(sel, value, start, FALSE, len, FALSE, 0, TRUE))

\* Variant: the bound-variable list is not written.
EncodeBinderNoVars(e, b) == encode_with_shorthand(e, b.body, "pred")

\* <Binder<PredicateKind> as Encodable>::encode
\* Variant: a binder whose body is cached is written as the body's
\* back-reference alone.
EncodeBinderVarsOnce(e, b) ==
    IF CacheLookup(e, "pred", b.body) # <<>>
    THEN encode_with_shorthand(e, b.body, "pred")
    ELSE encode_with_shorthand(EmitAll(emit_usize(e, Len(b.bound_vars)),
                                       b.bound_vars),
                               b.body, "pred")

EncodeBinder(e, b) ==
    LET e1 == EmitAll(emit_usize(e, Len(b.bound_vars)), b.bound_vars)
    IN  encode_with_shorthand(e1, b.body, "pred")

\* Variant: the region goes through encode_with_shorthand.
EncodeRegionShorthand(e, r) == encode_with_shorthand(e, r, "region")

\* <Region as Encodable>::encode
EncodeRegion(e, r) == EncodeKind(e, r)

\* <Const as Encodable>::encode: the derived encoding of ConstS.
EncodeConst(e, c) == EncodeKind(EncodeTy(e, c.ty), c.kind)

\* <List<Ty> as Encodable>::encode: the length, then the elements.
EncodeTyList(e, ts) == EncodeTys(emit_usize(e, Len(ts)), ts)

(***************************************************************************)
(* Cursor codec, read side.  A decoder is [pos, rcache, ok, seeks]: the    *)
(* cursor, the position-keyed cache of decoded types, whether it is still  *)
(* running (a failed assertion or a read outside the data stops it), and   *)
(* the history of the positions with_position moved the cursor to.         *)
(***************************************************************************)
MkDec(pos, rcache, ok) ==
    [pos |-> pos, rcache |-> rcache, ok |-> ok, seeks |-> <<>>]

Ret(val, d) == [val |-> val, d |-> d]

Fail(d) == Ret(<<>>, [d EXCEPT !.ok = FALSE])

InData(pos) == base <= pos /\ pos < base + Len(buf)

ByteAt(pos) == buf[pos - base + 1]

\* LEB128 read: the low seven bits of each byte, least significant group
\* first, until a byte without the continuation bit.
RECURSIVE ReadLeb(_, _, _)
ReadLeb(d, result, scale) ==
    IF ~InData(d.pos) THEN Fail(d)
    ELSE LET byte == ByteAt(d.pos)
             next == [d EXCEPT !.pos = @ + 1]
         IN  IF byte < 128
             THEN Ret(result + byte * scale, next)
             ELSE ReadLeb(next, result + (byte % 128) * scale, scale * 128)

read_usize(d) == IF ~d.ok THEN Fail(d) ELSE ReadLeb(d, 0, 1)

\* The next byte has the bit of SHORTHAND_OFFSET set.
positioned_at_shorthand(d) ==
    InData(d.pos) /\ (ByteAt(d.pos) \div SHORTHAND_OFFSET) % 2 = 1

RECURSIVE ReadAll(_, _, _)
ReadAllNext(r, n, acc) ==
    IF ~r.d.ok THEN Fail(r.d) ELSE ReadAll(r.d, n - 1, Append(acc, r.val))

ReadAll(d, n, acc) ==
    IF n = 0 THEN Ret(acc, d) ELSE ReadAllNext(read_usize(d), n, acc)

\* What the derived decoders know of each variant: the number of scalar
\* fields, whether the nested types are a length-prefixed list, and the
\* number of nested types otherwise.
Shape(ndata, list, nargs) == [ndata |-> ndata, list |-> list, nargs |-> nargs]

TyShapes ==
    (0 :> Shape(0, FALSE, 0)) @@ (3 :> Shape(1, FALSE, 0)) @@
    (6 :> Shape(2, FALSE, 0)) @@ (9 :> Shape(0, FALSE, 1)) @@
    (19 :> Shape(0, TRUE, 0))

PredShapes ==
    (5 :> Shape(1, FALSE, 0)) @@ (7 :> Shape(1, FALSE, 2)) @@
    (11 :> Shape(0, FALSE, 1))

RegionShapes == (0 :> Shape(2, FALSE, 0)) @@ (3 :> Shape(0, FALSE, 0))

ConstShapes == (0 :> Shape(2, FALSE, 0)) @@ (5 :> Shape(1, FALSE, 0))

Shapes(sel) ==
    IF sel = "ty" THEN TyShapes
    ELSE IF sel = "region" THEN RegionShapes
    ELSE IF sel = "const" THEN ConstShapes
    ELSE PredShapes

\* TyCtxt::mk_ty: the canonical handle of a kind.
mk_ty(kind) == kind

\* Variant: one byte past the position the shorthand names.
SubOffsetOffByOne(pos) == pos - SHORTHAND_OFFSET + 1

SubOffset(pos) == pos - SHORTHAND_OFFSET

RECURSIVE DecodeTy(_), DecodeTys(_, _, _), DecodeKind(_, _),
          with_position(_, _, _), cached_ty_for_shorthand(_, _)

\* The start of with_position: the cursor moves to `pos`.
SeekTo(d, pos, sel) ==
    [d EXCEPT !.pos = pos, !.seeks = Append(@, <<sel, pos>>)]

\* The end of with_position: the result `r` of the nested decode, with the
\* cursor put back where decoder `d` had it.
RestorePosition(r, d) == Ret(r.val, [r.d EXCEPT !.pos = d.pos])

\* DecodeContext::with_position: run the decode at `pos`, then put the
\* cursor back.
with_position(d, pos, sel) ==
    RestorePosition(IF sel = "ty"
                    THEN DecodeTy(SeekTo(d, pos, sel))
                    ELSE DecodeKind(SeekTo(d, pos, sel), "pred"),
                    d)

\* The end of cached_ty_for_shorthand: the decoded type `r` is stored
\* under the position.
RememberTy(r, shorthand) ==
    IF ~r.d.ok THEN Fail(r.d)
    ELSE Ret(r.val, [r.d EXCEPT !.rcache = (shorthand :> r.val) @@ @])

\* TyDecoder::cached_ty_for_shorthand
cached_ty_for_shorthand(d, shorthand) ==
    IF shorthand \in DOMAIN d.rcache
    THEN Ret(d.rcache[shorthand], d)
    ELSE RememberTy(with_position(d, shorthand, "ty"), shorthand)

\* Variant: the cursor is moved to the shorthand's position and left where
\* the nested decode ends.
FollowTyShorthandSeek(pos) ==
    IF ~pos.d.ok THEN Fail(pos.d)
    ELSE IF ~(pos.val >= SHORTHAND_OFFSET) THEN Fail(pos.d)
    ELSE IF SubOffset(pos.val) \in DOMAIN pos.d.rcache
    THEN Ret(pos.d.rcache[SubOffset(pos.val)], pos.d)
    ELSE RememberTy(DecodeTy(SeekTo(pos.d, SubOffset(pos.val), "ty")),
                    SubOffset(pos.val))

\* Variant: the type is decoded at the shorthand's position without
\* consulting the decoder's cache.
FollowTyShorthandUncached(pos) ==
    IF ~pos.d.ok THEN Fail(pos.d)
    ELSE IF ~(pos.val >= SHORTHAND_OFFSET) THEN Fail(pos.d)
    ELSE with_position(pos.d, SubOffset(pos.val), "ty")

\* Variant: the offset is not taken off the shorthand.
FollowTyShorthandNoOffset(pos) ==
    IF ~pos.d.ok THEN Fail(pos.d)
    ELSE IF ~(pos.val >= SHORTHAND_OFFSET) THEN Fail(pos.d)
    ELSE cached_ty_for_shorthand(pos.d, pos.val)

\* Variant: the integer must be strictly above the offset.
FollowTyShorthandStrict(pos) ==
    IF ~pos.d.ok THEN Fail(pos.d)
    ELSE IF ~(pos.val > SHORTHAND_OFFSET) THEN Fail(pos.d)
    ELSE cached_ty_for_shorthand(pos.d, SubOffset(pos.val))

\* <Ty as Decodable>::decode, shorthand branch, once `pos` has been read.
FollowTyShorthand(pos) ==
    IF ~pos.d.ok THEN Fail(pos.d)
    ELSE IF ~(pos.val >= SHORTHAND_OFFSET) THEN Fail(pos.d)
    ELSE cached_ty_for_shorthand(pos.d, SubOffset(pos.val))

\* <Ty as Decodable>::decode, plain branch, once the kind has been decoded.
InternTy(k) == IF ~k.d.ok THEN Fail(k.d) ELSE Ret(mk_ty(k.val), k.d)

\* Variant: a type decoded in place is stored under its position too.
DecodeTyRemember(d) ==
    IF ~d.ok THEN Fail(d)
    ELSE IF positioned_at_shorthand(d)
    THEN FollowTyShorthand(read_usize(d))
    ELSE RememberTy(InternTy(DecodeKind(d, "ty")), d.pos)

\* <Ty as Decodable>::decode
DecodeTy(d) ==
    IF ~d.ok THEN Fail(d)
    ELSE IF positioned_at_shorthand(d)
    THEN FollowTyShorthand(read_usize(d))
    ELSE InternTy(DecodeKind(d, "ty"))

\* Variant: each decoded element is put in front of the earlier ones.
DecodeTysNextReversed(r, n, acc) ==
    IF ~r.d.ok THEN Fail(r.d) ELSE DecodeTys(r.d, n - 1, <<r.val>> \o acc)

DecodeTysNext(r, n, acc) ==
    IF ~r.d.ok THEN Fail(r.d) ELSE DecodeTys(r.d, n - 1, Append(acc, r.val))

DecodeTys(d, n, acc) ==
    IF n = 0 THEN Ret(acc, d) ELSE DecodeTysNext(DecodeTy(d), n, acc)

\* <List<Ty> as RefDecodable>::decode, once `len` is read: the elements
\* handed to mk_type_list.
TypeListElems(len) ==
    IF ~len.d.ok THEN Fail(len.d) ELSE DecodeTys(len.d, len.val, <<>>)

\* <List<Ty> as RefDecodable>::decode
DecodeTyList(d) == TypeListElems(read_usize(d))

\* The derived decoding of a kind, step by step: the variant index `tag`,
\* the scalar fields `data`, the number `n` of nested types, the nested
\* types `args`.
KindBuild(disc, sh, data, args) ==
    IF ~args.d.ok THEN Fail(args.d)
    ELSE Ret(MkKind(disc, data, sh.list, args.val), args.d)

KindArgs(disc, sh, data, n) ==
    IF ~n.d.ok THEN Fail(n.d)
    ELSE KindBuild(disc, sh, data, DecodeTys(n.d, n.val, <<>>))

KindCount(disc, sh, data) ==
    IF ~data.d.ok THEN Fail(data.d)
    ELSE KindArgs(disc, sh, data.val,
                  IF sh.list THEN read_usize(data.d)
                             ELSE Ret(sh.nargs, data.d))

KindFields(tag, sel) ==
    IF ~tag.d.ok \/ tag.val \notin DOMAIN Shapes(sel) THEN Fail(tag.d)
    ELSE KindCount(tag.val, Shapes(sel)[tag.val],
                   ReadAll(tag.d, Shapes(sel)[tag.val].ndata, <<>>))

DecodeKind(d, sel) == KindFields(read_usize(d), sel)

\* <Binder<PredicateKind> as Decodable>::decode, shorthand branch, once
\* `pos` has been read.
FollowPredShorthand(pos) ==
    IF ~pos.d.ok THEN Fail(pos.d)
    ELSE IF ~(pos.val >= SHORTHAND_OFFSET) THEN Fail(pos.d)
    ELSE with_position(pos.d, SubOffset(pos.val), "pred")

\* The body of a binder-wrapped predicate: a shorthand or the kind in place.
DecodePredBody(b) ==
    IF ~b.ok THEN Fail(b)
    ELSE IF positioned_at_shorthand(b)
    THEN FollowPredShorthand(read_usize(b))
    ELSE DecodeKind(b, "pred")

\* ty::Binder::bind_with_vars
bind_with_vars(body, bound_vars) ==
    IF ~body.d.ok THEN Fail(body.d)
    ELSE Ret(MkBinder(bound_vars, body.val), body.d)

BinderBody(bound_vars) ==
    IF ~bound_vars.d.ok THEN Fail(bound_vars.d)
    ELSE bind_with_vars(DecodePredBody(bound_vars.d), bound_vars.val)

\* <List<BoundVariableKind> as RefDecodable>::decode, once `len` is read.
BoundVars(len) ==
    IF ~len.d.ok THEN Fail(len.d) ELSE ReadAll(len.d, len.val, <<>>)

\* <Binder<PredicateKind> as Decodable>::decode
DecodeBinder(d) == BinderBody(BoundVars(read_usize(d)))

\* TyCtxt::mk_region and TyCtxt::mk_const: the canonical handles.
mk_region(kind) == kind

mk_const(c) == c

\* <Region as Decodable>::decode, once the kind has been decoded.
InternRegion(k) == IF ~k.d.ok THEN Fail(k.d) ELSE Ret(mk_region(k.val), k.d)

\* <Region as Decodable>::decode
DecodeRegion(d) == InternRegion(DecodeKind(d, "region"))

\* <Const as Decodable>::decode, once the ConstS's fields have been
\* decoded.
InternConst(ty, k) ==
    IF ~k.d.ok THEN Fail(k.d) ELSE Ret(mk_const(MkConst(ty, k.val)), k.d)

ConstKindOf(ty) ==
    IF ~ty.d.ok THEN Fail(ty.d)
    ELSE InternConst(ty.val, DecodeKind(ty.d, "const"))

\* <Const as Decodable>::decode
DecodeConst(d) == ConstKindOf(DecodeTy(d))

(***************************************************************************)
(* The session.                                                            *)
(***************************************************************************)
NoDec == [idx |-> 0, val |-> <<>>, pos |-> 0, ok |-> TRUE]

\* An encoder that has written nothing.
FreshEnc == MkEnc(<<>>, <<>>, <<>>, <<>>, TRUE)

\* The stream is as the encoder wrote it.
Untouched == [kind |-> "none", idx |-> 0, sel |-> "", target |-> 0]

\* The handle in `table` of a list equal to `ts`.
(***************************************************************************)
(* Arena-allocated slices of (Predicate, Span) and allocation ids.         *)
(***************************************************************************)
\* Spans are opaque here: a span is a small number.
PredSpanUniverse ==
    { << <<MkBinder(<<>>, PkSubtype), 1>> >>,
      << <<MkBinder(<<0, 2>>, PkTypeWF), 1>>,
         <<MkBinder(<<0, 2>>, PkTypeWF), 2>> >>,
      <<>> }

\* Allocation ids, one of them with the high bit set in its first byte.
AllocIds == {5, 200}

\* <Predicate as Encodable>::encode
EncodePredicate(e, p) == EncodeBinder(e, p)

EncodeSpan(e, sp) == emit_usize(e, sp)

EncodePredSpan(e, x) == EncodeSpan(EncodePredicate(e, x[1]), x[2])

RECURSIVE EncodePredSpans(_, _)
EncodePredSpans(e, xs) ==
    IF xs = <<>> THEN e
    ELSE EncodePredSpans(EncodePredSpan(e, Head(xs)), Tail(xs))

\* The encoding of a slice: its length, then its elements.
EncodePredSpanSlice(e, xs) == EncodePredSpans(emit_usize(e, Len(xs)), xs)

\* TyEncoder::encode_alloc_id, the hook of the concrete encoder, which
\* writes the id as it sees fit: here, as one integer.
encode_alloc_id(e, id) == emit_usize(e, id)

\* <AllocId as Encodable>::encode
EncodeAllocId(e, id) == encode_alloc_id(e, id)

\* TyCtxt::mk_predicate: the canonical handle.
mk_predicate(kind) == kind

\* <Predicate as Decodable>::decode, once the binder is decoded.
InternPredicate(k) ==
    IF ~k.d.ok THEN Fail(k.d) ELSE Ret(mk_predicate(k.val), k.d)

\* <Predicate as Decodable>::decode
DecodePredicate(d) == InternPredicate(DecodeBinder(d))

\* The pair of a decoded predicate and the span read after it.
PredSpanPair(p, sp) ==
    IF ~sp.d.ok THEN Fail(sp.d) ELSE Ret(<<p, sp.val>>, sp.d)

PredSpanAfter(p) ==
    IF ~p.d.ok THEN Fail(p.d) ELSE PredSpanPair(p.val, read_usize(p.d))

DecodePredSpan(d) == PredSpanAfter(DecodePredicate(d))

RECURSIVE DecodePredSpans(_, _, _)
DecodePredSpansNext(r, n, acc) ==
    IF ~r.d.ok THEN Fail(r.d)
    ELSE DecodePredSpans(r.d, n - 1, Append(acc, r.val))

DecodePredSpans(d, n, acc) ==
    IF n = 0 THEN Ret(acc, d)
    ELSE DecodePredSpansNext(DecodePredSpan(d), n, acc)

\* <[(Predicate, Span)] as RefDecodable>::decode, once the length is read:
\* the elements handed to the arena.
PredSpanElems(len) ==
    IF ~len.d.ok THEN Fail(len.d) ELSE DecodePredSpans(len.d, len.val, <<>>)

DecodePredSpanSlice(d) == PredSpanElems(read_usize(d))

\* Arena::alloc_from_iter: a new slot holding the elements; the reference
\* returned is the slot's index.
alloc_from_iter(ar, i, elems) ==
    [slots |-> Append(ar.slots, elems),
     log |-> Append(ar.log, [rec |-> i, handle |-> Len(ar.slots) + 1])]

\* Variant: a slot that already holds equal elements is handed out again.
AllocPredSpansInterned(ar, i, r) ==
    IF \E h \in DOMAIN ar.slots : ar.slots[h] = r.val
    THEN [slots |-> ar.slots,
          log |-> Append(ar.log,
                         [rec |-> i,
                          handle |-> CHOOSE h \in DOMAIN ar.slots :
                                         ar.slots[h] = r.val])]
    ELSE alloc_from_iter(ar, i, r.val)

\* <[(Predicate, Span)] as RefDecodable>::decode: the decoded elements `r`
\* of record i go to the arena.
AllocPredSpans(ar, i, r) == alloc_from_iter(ar, i, r.val)

\* TyDecoder::decode_alloc_id, the hook of the concrete decoder.
decode_alloc_id(d) == read_usize(d)

\* Variant: an id whose first byte has the high bit set is taken for a
\* shorthand.
DecodeAllocIdShorthand(d) ==
    IF positioned_at_shorthand(d)
    THEN FollowTyShorthand(read_usize(d))
    ELSE decode_alloc_id(d)

\* <AllocId as Decodable>::decode
DecodeAllocId(d) == decode_alloc_id(d)

HandleOf(table, ts) == CHOOSE h \in DOMAIN table : table[h] = ts

\* Variant: every call allocates a new list.
mk_type_listFresh(table, ts) ==
    [handle |-> Len(table) + 1, table |-> Append(table, ts)]

\* TyCtxt::mk_type_list on the interner's table: the handle of the list
\* equal to `ts` if the table holds one, a new entry otherwise.
mk_type_list(table, ts) ==
    IF \E h \in DOMAIN table : table[h] = ts
    THEN [handle |-> HandleOf(table, ts), table |-> table]
    ELSE [handle |-> Len(table) + 1, table |-> Append(table, ts)]

(***************************************************************************)
(* clippy_lints::matches: the Matches lint pass.                           *)
(***************************************************************************)
MatchSources == {"Normal", "ForLoopDesugar", "TryDesugar"}

\* What check_expr looks at in an expression.  `like_matches` is the result
\* of match_like_matches::check_match, `cfg_arm` that of contains_cfg_arm,
\* `starts_with_match` that of span_starts_with(cx, expr.span, "match").
MkExpr(kind, external, from_expansion, source, starts_with_match, cfg_arm, like_matches, in_constant, has_else) ==
    [kind |-> kind, in_external_macro |-> external,
     from_expansion |-> from_expansion, source |-> source,
     starts_with_match |-> starts_with_match, cfg_arm |-> cfg_arm,
     like_matches |-> like_matches, in_constant |-> in_constant,
     has_else |-> has_else]

ExprUniverse ==
    { MkExpr("match", x, fe, src, sw, cfg, lm, ic, FALSE) :
        x \in BOOLEAN, fe \in BOOLEAN, src \in MatchSources, sw \in BOOLEAN,
        cfg \in BOOLEAN, lm \in BOOLEAN, ic \in BOOLEAN }
    \cup { MkExpr("if_let", x, fe, "Normal", FALSE, FALSE, FALSE, ic, el) :
             x \in BOOLEAN, fe \in BOOLEAN, ic \in BOOLEAN, el \in BOOLEAN }
    \cup { MkExpr("other", x, fe, "Normal", FALSE, FALSE, FALSE, FALSE, FALSE) :
             x \in BOOLEAN, fe \in BOOLEAN }

\* The state of the pass and the checks a call ran.
Pass(self, linted, ran) ==
    [self EXCEPT !.infallible_destructuring_match_linted = linted,
                 !.ran = ran]

\* check_expr, MatchSource::Normal branch inside the cfg-arm test.
NormalChecks(self, e) ==
    (IF self.msrv /\ e.like_matches THEN {} ELSE {"match_same_arms"})
    \cup (IF self.msrv THEN {"match_like_matches"} ELSE {})
    \cup {"redundant_pattern_match", "single_match", "match_bool",
          "overlapping_arms", "match_wild_enum", "match_as_ref",
          "needless_match", "match_on_vec_items", "match_str_case_mismatch"}
    \cup (IF e.in_constant THEN {} ELSE {"manual_unwrap_or", "manual_map"})
    \cup (IF self.infallible_destructuring_match_linted
          THEN {} ELSE {"match_single_binding"})

\* check_expr on ExprKind::Match, after the early returns.
MatchChecks(self, e) ==
    (IF e.source \in {"Normal", "ForLoopDesugar"}
     THEN {"significant_drop_in_scrutinee"} ELSE {})
    \cup {"collapsible_match"}
    \cup (IF ~e.from_expansion
          THEN {"match_wild_err_arm", "wild_in_or_pats"} ELSE {})
    \cup (IF e.source = "TryDesugar" THEN {"try_err"} ELSE {})
    \cup (IF ~e.from_expansion /\ ~e.cfg_arm
          THEN (IF e.source = "Normal" THEN NormalChecks(self, e) ELSE {})
               \cup {"match_ref_pats"}
          ELSE {})

\* check_expr on an if-let.
IfLetChecks(self, e) ==
    {"collapsible_match"}
    \cup (IF ~e.from_expansion
          THEN (IF e.has_else /\ self.msrv THEN {"match_like_matches"} ELSE {})
               \cup (IF e.has_else /\ ~e.in_constant
                     THEN {"manual_map"} ELSE {})
               \cup {"redundant_pattern_match", "needless_match"}
          ELSE {})

\* <Matches as LateLintPass>::check_expr
check_expr(self, e) ==
    IF e.in_external_macro
    THEN Pass(self, self.infallible_destructuring_match_linted, {})
    ELSE IF e.kind = "match"
    THEN IF e.source = "Normal" /\ ~e.starts_with_match
         THEN Pass(self, self.infallible_destructuring_match_linted, {})
         ELSE Pass(self,
                   IF ~e.from_expansion /\ ~e.cfg_arm /\ e.source = "Normal"
                   THEN FALSE
                   ELSE self.infallible_destructuring_match_linted,
                   MatchChecks(self, e))
    ELSE IF e.kind = "if_let"
    THEN Pass(self, self.infallible_destructuring_match_linted,
              IfLetChecks(self, e))
    ELSE Pass(self, self.infallible_destructuring_match_linted,
              IF ~e.from_expansion THEN {"redundant_pattern_match"} ELSE {})

\* Variant: the flag is assigned the result of the check.
check_localAssign(self, fired) ==
    Pass(self, fired, {"infallible_destructuring_match"})

\* <Matches as LateLintPass>::check_local; `fired` is the result of
\* infallible_destructuring_match::check.
check_local(self, fired) ==
    Pass(self, self.infallible_destructuring_match_linted \/ fired,
         {"infallible_destructuring_match"})

\* <Matches as LateLintPass>::check_pat
check_pat(self) ==
    Pass(self, self.infallible_destructuring_match_linted,
         {"rest_pat_in_fully_bound_struct"})

\* Matches::new: the flag is false.  `msrv` tells whether the configured
\* version meets msrvs::MATCHES_MACRO.
MatchesNew(msrv) ==
    [msrv |-> msrv, infallible_destructuring_match_linted |-> FALSE,
     ran |-> {}]

NoVisit == [op |-> "none", expr |-> MkExpr("other", FALSE, FALSE, "Normal",
                                           FALSE, FALSE, FALSE, FALSE, FALSE),
            fired |-> FALSE, before |-> FALSE]

NewMatches == [self |-> MatchesNew(TRUE), visits |-> 0, last |-> NoVisit]

(***************************************************************************)
(* librustdoc::clean::utils::enter_impl_trait.                             *)
(***************************************************************************)
\* Keys of cx.impl_trait_bounds, and results a closure may return.
ImplTraitParams == {1, 2}

ClosureResults == {0, 1}

NoCall == [op |-> "none", r |-> 0, pre |-> {}, left |-> {}]

\* A DocContext outside any enter_impl_trait call.  `stack` holds the
\* frames of the calls in progress, `last` the last call event.
NewDocContext ==
    [impl_trait_bounds |-> {}, stack |-> <<>>, status |-> "running",
     last |-> NoCall]

\* Variant: the bounds are copied for later, and left in place.
EnterBoundsKept(cx) ==
    [cx EXCEPT !.stack = Append(@, [old_bounds |-> cx.impl_trait_bounds,
                                    pre |-> cx.impl_trait_bounds]),
               !.last = [op |-> "enter", r |-> 0,
                         pre |-> cx.impl_trait_bounds, left |-> {}]]

\* enter_impl_trait up to the call of f: old_bounds takes the bounds and an
\* empty map is left in the context.
Enter(cx) ==
    [cx EXCEPT !.stack = Append(@, [old_bounds |-> cx.impl_trait_bounds,
                                    pre |-> cx.impl_trait_bounds]),
               !.impl_trait_bounds = {},
               !.last = [op |-> "enter", r |-> 0,
                         pre |-> cx.impl_trait_bounds, left |-> {}]]

\* The frame of the innermost call in progress.
Frame(cx) == cx.stack[Len(cx.stack)]

\* Variant: the assertion is left out.
LeaveUnchecked(cx, r) ==
    [cx EXCEPT !.impl_trait_bounds = Frame(cx).old_bounds,
               !.stack = SubSeq(@, 1, Len(@) - 1),
               !.last = [op |-> "return", r |-> r, pre |-> Frame(cx).pre,
                         left |-> cx.impl_trait_bounds]]

\* enter_impl_trait once f has returned r: the assertion, then the old
\* bounds are put back and r is returned.
Leave(cx, r) ==
    IF cx.impl_trait_bounds # {}
    THEN [cx EXCEPT !.status = "aborted",
                    !.last = [op |-> "abort", r |-> r, pre |-> Frame(cx).pre,
                              left |-> cx.impl_trait_bounds]]
    ELSE [cx EXCEPT !.impl_trait_bounds = Frame(cx).old_bounds,
                    !.stack = SubSeq(@, 1, Len(@) - 1),
                    !.last = [op |-> "return", r |-> r, pre |-> Frame(cx).pre,
                              left |-> cx.impl_trait_bounds]]

(***************************************************************************)
(* librustdoc::clean::utils::find_nearest_parent_module.                   *)
(***************************************************************************)
\* Definitions are numbered from the crate root, 1; 0 stands for None.
DefIds == 1 .. MaxDefs

CRATE_DEF_INDEX == 1

DefKinds == {"Mod", "Fn"}

\* The definition trees of a crate: the root has no parent and is a module,
\* every other definition has a parent defined before it.
DefTrees ==
    { [parent |-> p, kind |-> k] :
        p \in { q \in [DefIds -> 0 .. MaxDefs] :
                  /\ q[CRATE_DEF_INDEX] = 0
                  /\ \A d \in DefIds \ {CRATE_DEF_INDEX} :
                        q[d] >= 1 /\ q[d] < d },
        k \in { l \in [DefIds -> DefKinds] : l[CRATE_DEF_INDEX] = "Mod" } }

is_top_level_module(def_id) == def_id = CRATE_DEF_INDEX

opt_parent(tcx, def_id) == tcx.parent[def_id]

def_kind(tcx, def_id) == tcx.kind[def_id]

\* No crate loaded, no call made.
NoCrate ==
    [tcx |-> [parent |-> <<>>, kind |-> <<>>], pc |-> "unloaded",
     def_id |-> 0, current |-> 0, result |-> 0, steps |-> 0]

\* The start of find_nearest_parent_module.
FindStart(m, def_id) ==
    IF is_top_level_module(def_id)
    THEN [m EXCEPT !.pc = "done", !.def_id = def_id, !.current = def_id,
                   !.result = def_id, !.steps = 0]
    ELSE [m EXCEPT !.pc = "loop", !.def_id = def_id, !.current = def_id,
                   !.result = 0, !.steps = 0]

\* Variant: the kind of the current definition is tested, not its parent's.
FindStepSelf(m) ==
    LET parent == opt_parent(m.tcx, m.current) IN
    IF parent = 0
    THEN [m EXCEPT !.pc = "done", !.result = 0]
    ELSE IF def_kind(m.tcx, m.current) = "Mod"
         THEN [m EXCEPT !.pc = "done", !.result = m.current]
         ELSE [m EXCEPT !.current = parent, !.steps = @ + 1]

\* One turn of the while-let loop.
FindStep(m) ==
    LET parent == opt_parent(m.tcx, m.current) IN
    IF parent = 0
    THEN [m EXCEPT !.pc = "done", !.result = 0]
    ELSE IF def_kind(m.tcx, parent) = "Mod"
         THEN [m EXCEPT !.pc = "done", !.result = parent]
         ELSE [m EXCEPT !.current = parent, !.steps = @ + 1]

(***************************************************************************)
(* rustc_middle::ty::diagnostics::suggest_constraining_type_params.        *)
(***************************************************************************)
ParamNames == {"T", "U"}

\* Constraint names in the order of str; only "Sized" comes with the
\* def_id of the Sized lang item.
ConstraintNames == <<"Clone", "Copy", "Sized">>

\* A generic parameter as the function sees it: whether
\* bounds_span_for_suggestions finds bounds, whether it has a default,
\* whether a colon follows its name, and how many ?Sized bounds
\* suggest_removing_unsized_bound finds for it.
MkParam(bounds, default, colon, qsized) ==
    [bounds |-> bounds, default |-> default, colon |-> colon,
     qsized |-> qsized]

GenericParamUniverse ==
    { MkParam(TRUE, FALSE, TRUE, 0), MkParam(TRUE, FALSE, TRUE, 1),
      MkParam(TRUE, FALSE, TRUE, 2), MkParam(FALSE, TRUE, FALSE, 0),
      MkParam(FALSE, FALSE, TRUE, 0), MkParam(FALSE, FALSE, FALSE, 0) }

\* hir::Generics: the parameters by name and the where-clause flag.
GenericsUniverse ==
    { [params |-> ps, has_where_clause_predicates |-> w] :
        ps \in UNION { [S -> GenericParamUniverse] : S \in SUBSET ParamNames },
        w \in BOOLEAN }

RequestUniverse ==
    { [param_name |-> n, constraint |-> ConstraintNames[c],
       sized |-> ConstraintNames[c] = "Sized"] :
        n \in ParamNames, c \in DOMAIN ConstraintNames }

RequestSeqs == UNION { [1 .. n -> RequestUniverse] : n \in 0 .. MaxRequests }

\* Lines 198-201: the requests grouped by parameter name, in order.
Grouped(reqs) ==
    [n \in { reqs[i].param_name : i \in DOMAIN reqs } |->
        LET Named(r) == r.param_name = n IN SelectSeq(reqs, Named)]

\* constraint.sort(); constraint.dedup(): the names once each, in order.
SortDedup(constraints) ==
    LET Present(c) == \E i \in DOMAIN constraints : constraints[i].constraint = c
    IN  SelectSeq(ConstraintNames, Present)

Suggestion(span, text, msg, ty) ==
    [span |-> span, text |-> text, msg |-> msg, ty |-> ty]

\* suggest_removing_unsized_bound: one removal for each ?Sized bound.
RemoveUnsized(param) ==
    [i \in 1 .. param.qsized |->
        Suggestion("bound_removal", <<>>, "RemovingQSized", "")]

\* Lines 228-343: the one edit pushed for the constraints left after the
\* Sized ones are drained.
Restrict(generics, param, param_name, constraints) ==
    IF param.bounds
    THEN Suggestion("bounds", <<"+">> \o SortDedup(constraints),
                    "RestrictBoundFurther", "")
    ELSE IF generics.has_where_clause_predicates
    THEN Suggestion("tail", [i \in DOMAIN constraints |-> constraints[i].constraint],
                    "RestrictTypeFurther", param_name)
    ELSE IF param.default
    THEN Suggestion("tail", <<"where">> \o SortDedup(constraints),
                    "RestrictTypeFurther", param_name)
    ELSE IF param.colon
    THEN Suggestion("colon", SortDedup(constraints), "RestrictType", param_name)
    ELSE Suggestion("param", <<":">> \o SortDedup(constraints),
                    "RestrictType", param_name)

\* No call made, nothing attached to the diagnostic.
NoDiag ==
    [pc |-> "idle",
     generics |-> [params |-> <<>>, has_where_clause_predicates |-> FALSE],
     requests |-> <<>>, grouped |-> <<>>, suggestions |-> <<>>,
     applicability |-> "MachineApplicable", labels |-> {}, err |-> <<>>,
     result |-> "none"]

SuggestStart(d, generics, reqs) ==
    [d EXCEPT !.pc = "loop", !.generics = generics, !.requests = reqs,
              !.grouped = Grouped(reqs)]

\* One turn of the loop over the groups, for the group of param_name.
SuggestTurn(d, param_name) ==
    IF param_name \notin DOMAIN d.generics.params
    THEN [d EXCEPT !.pc = "done", !.result = "false"]
    ELSE
      LET param == d.generics.params[param_name]
          IsSized(r) == r.sized
          NotSized(r) == ~r.sized
          sized == SelectSeq(d.grouped[param_name], IsSized)
          constraints == SelectSeq(d.grouped[param_name], NotSized)
          removed == IF sized # <<>> THEN RemoveUnsized(param) ELSE <<>>
          pushed == IF constraints = <<>> THEN <<>>
                    ELSE <<Restrict(d.generics, param, param_name, constraints)>>
      IN  [d EXCEPT
             !.grouped = [n \in DOMAIN d.grouped \ {param_name} |-> d.grouped[n]],
             !.applicability = IF sized # <<>> THEN "MaybeIncorrect" ELSE @,
             !.labels = IF sized # <<>> THEN @ \cup {param_name} ELSE @,
             !.suggestions = @ \o removed \o pushed]

\* Variant: any collected edit is attached as a single-span suggestion.
SuggestFinishSingle(d) ==
    [d EXCEPT !.pc = "done", !.result = "true",
              !.err = IF Len(d.suggestions) >= 1
                      THEN <<[kind |-> "span_suggestion_verbose",
                              parts |-> <<d.suggestions[Len(d.suggestions)]>>,
                              applicability |-> d.applicability]>>
                      ELSE <<>>]

\* Lines 346-376: the collected edits are attached and true is returned.
SuggestFinish(d) ==
    [d EXCEPT !.pc = "done", !.result = "true",
              !.err = IF Len(d.suggestions) = 1
                      THEN <<[kind |-> "span_suggestion_verbose",
                              parts |-> d.suggestions,
                              applicability |-> d.applicability]>>
                      ELSE IF Len(d.suggestions) > 1
                      THEN <<[kind |-> "multipart_suggestion_verbose",
                              parts |-> d.suggestions,
                              applicability |-> d.applicability]>>
                      ELSE <<>>]

(***************************************************************************)
(* librustdoc::clean::utils::format_integer_with_underscore_sep.           *)
(* A string is the sequence of its characters.                             *)
(***************************************************************************)
Signs == {<<>>, <<"-">>}

RadixPrefixes == {<<>>, <<"0", "b">>, <<"0", "x">>, <<"0", "o">>}

DigitChars == <<"1", "2", "3", "4", "5", "6", "7", "8", "9">>

\* Digit strings of every length: 1234..., all zeros, and 0123....
DigitStrings ==
    UNION { { [i \in 1 .. n |-> DigitChars[((i - 1) % 9) + 1]],
              [i \in 1 .. n |-> "0"],
              [i \in 1 .. n |-> IF i = 1 THEN "0"
                                 ELSE DigitChars[((i - 2) % 9) + 1]] } :
            n \in 0 .. MaxDigits }

\* The integer literals: a sign, a radix prefix, digits; no underscores.
Literals ==
    { [sign |-> sg, prefix |-> px, digits |-> ds] :
        sg \in Signs, px \in RadixPrefixes, ds \in DigitStrings }

LiteralText(lit) == lit.sign \o lit.prefix \o lit.digits

RECURSIVE RChunksFromLeft(_, _)
\* Variant: the chunks are cut from the left end.
RChunksFromLeft(s, chunk_size) ==
    IF s = <<>> THEN <<>>
    ELSE IF Len(s) <= chunk_size THEN <<s>>
    ELSE RChunksFromLeft(SubSeq(s, chunk_size + 1, Len(s)), chunk_size)
           \o <<SubSeq(s, 1, chunk_size)>>

RECURSIVE RChunks(_, _)
\* slice::rchunks: chunks of chunk_size cut from the right end, the
\* rightmost first; the last one holds what is left.
RChunks(s, chunk_size) ==
    IF s = <<>> THEN <<>>
    ELSE IF Len(s) <= chunk_size THEN <<s>>
    ELSE <<SubSeq(s, Len(s) - chunk_size + 1, Len(s))>>
           \o RChunks(SubSeq(s, 1, Len(s) - chunk_size), chunk_size)

\* Iterator::rev.
Rev(s) == [i \in 1 .. Len(s) |-> s[Len(s) + 1 - i]]

\* Iterator::intersperse: sep between every two items.
Intersperse(s, sep) ==
    [i \in 1 .. (IF s = <<>> THEN 0 ELSE 2 * Len(s) - 1) |->
        IF i % 2 = 1 THEN s[(i + 1) \div 2] ELSE sep]

RECURSIVE Flatten(_)
\* Iterator::flatten.
Flatten(ss) == IF ss = <<>> THEN <<>> ELSE Head(ss) \o Flatten(Tail(ss))

format_integer_with_underscore_sep(num) ==
    LET sign_end == IF Len(num) >= 1 /\ num[1] = "-" THEN 1 ELSE 0
        rest == SubSeq(num, sign_end + 1, Len(num))
        bin_or_hex == Len(rest) >= 2 /\ rest[1] = "0" /\ rest[2] \in {"b", "x"}
        octal == Len(rest) >= 2 /\ rest[1] = "0" /\ rest[2] = "o"
        num_start_index == IF bin_or_hex \/ octal THEN sign_end + 2 ELSE sign_end
        chunk_size == IF bin_or_hex THEN 4 ELSE 3
    IN  IF octal /\ Len(num) - num_start_index <= 6
        THEN num
        ELSE SubSeq(num, 1, num_start_index)
               \o Flatten(Intersperse(
                      Rev(RChunks(SubSeq(num, num_start_index + 1, Len(num)),
                                  chunk_size)),
                      <<"_">>))

\* No literal formatted yet.
NoFormat == [pc |-> "idle", lit |-> [sign |-> <<>>, prefix |-> <<>>, digits |-> <<>>],
             num |-> <<>>, out |-> <<>>]

\* The arena before any decode: no allocation, no reference handed out.
NoArena == [slots |-> <<>>, log |-> <<>>]

\* Decoding threads of one session, and the kinds they hand to mk_ty.
Threads == {1, 2}

InternPayloads == {variant(TyU8), variant(TySliceU8)}

Idle == [pc |-> "idle", payload |-> variant(TyU8), handle |-> 0,
         missed |-> FALSE]

\* The shared interner before any call: an empty table, no writer.
NoThreads ==
    [table |-> <<>>, lock |-> 0, calls |-> 0, th |-> [t \in Threads |-> Idle],
     log |-> <<>>]

\* Variant: the exclusive section inserts without looking again.
insert_unchecked(table, k) ==
    [handle |-> Len(table) + 1, table |-> Append(table, k)]

\* The interner's exclusive section: the entry equal to `k` if another
\* thread has made one in the meantime, a new entry otherwise.
insert_or_find(table, k) ==
    IF \E h \in DOMAIN table : table[h] = k
    THEN [handle |-> HandleOf(table, k), table |-> table]
    ELSE [handle |-> Len(table) + 1, table |-> Append(table, k)]

Init ==
    /\ fmt = NoFormat
    /\ diag = NoDiag
    /\ mods = NoCrate
    /\ doc = NewDocContext
    /\ matches = NewMatches
    /\ arena = NoArena
    /\ threads = NoThreads
    /\ session2 = [enc |-> FreshEnc, ops |-> <<>>]
    /\ interner = [table |-> <<>>, log |-> <<>>]
    /\ tamper = Untouched
    /\ base \in StartOffsets
    /\ buf = <<>>
    /\ type_shorthands = <<>>
    /\ predicate_shorthands = <<>>
    /\ trace = <<>>
    /\ records = <<>>
    /\ phase = "encoding"
    /\ ty_rcache = <<>>
    /\ dec = NoDec

CurrentEnc == MkEnc(buf, type_shorthands, predicate_shorthands, trace, TRUE)

Commit(e, sel, value) ==
    /\ buf' = e.buf
    /\ type_shorthands' = e.tsh
    /\ predicate_shorthands' = e.psh
    /\ trace' = e.trace
    /\ records' = Append(records,
                         [sel |-> sel, val |-> value, pos |-> base + Len(buf),
                          end |-> base + Len(e.buf)])
    /\ phase' = IF e.ok THEN "encoding" ELSE "panicked"
    /\ UNCHANGED <<base, ty_rcache, dec, session2, tamper, interner,
                   arena, threads, matches, doc, mods, diag, fmt>>

EncodeTyOp(ty) ==
    /\ phase = "encoding"
    /\ Len(records) < MaxOps
    /\ Commit(EncodeTy(CurrentEnc, ty), "ty", ty)

EncodeBinderOp(b) ==
    /\ phase = "encoding"
    /\ Len(records) < MaxOps
    /\ Commit(EncodeBinder(CurrentEnc, b), "binder", b)

EncodeRegionOp(r) ==
    /\ phase = "encoding"
    /\ Len(records) < MaxOps
    /\ Commit(EncodeRegion(CurrentEnc, r), "region", r)

EncodeConstOp(c) ==
    /\ phase = "encoding"
    /\ Len(records) < MaxOps
    /\ Commit(EncodeConst(CurrentEnc, c), "const", c)

Finish ==
    /\ phase = "encoding"
    /\ records # <<>>
    /\ phase' = "decoding"
    /\ UNCHANGED <<base, buf, type_shorthands, predicate_shorthands, trace,
                   records, ty_rcache, dec, session2, tamper, interner,
                   arena, threads, matches, doc, mods, diag, fmt>>

\* A decoder placed at the start of record i of the finished stream.
DecodeRecord(i) ==
    IF records[i].sel = "ty"
    THEN DecodeTy(MkDec(records[i].pos, ty_rcache, TRUE))
    ELSE IF records[i].sel = "region"
    THEN DecodeRegion(MkDec(records[i].pos, ty_rcache, TRUE))
    ELSE IF records[i].sel = "const"
    THEN DecodeConst(MkDec(records[i].pos, ty_rcache, TRUE))
    ELSE DecodeBinder(MkDec(records[i].pos, ty_rcache, TRUE))

Decoded(i, r) ==
    /\ dec' = [idx |-> i, val |-> r.val, pos |-> r.d.pos, ok |-> r.d.ok]
    /\ ty_rcache' = r.d.rcache

DecodeOp(i) ==
    /\ phase = "decoding"
    /\ Decoded(i, DecodeRecord(i))
    /\ UNCHANGED <<base, buf, type_shorthands, predicate_shorthands, trace,
                   records, phase, session2, tamper, interner,
                   arena, threads, matches, doc, mods, diag, fmt>>

Next ==
    \/ \E ty \in TyUniverse : EncodeTyOp(ty)
    \/ \E b \in BinderUniverse : EncodeBinderOp(b)
    \/ Finish
    \/ \E i \in DOMAIN records : DecodeOp(i)

Spec == Init /\ [][Next]_vars

\* The session when the encoded variant type may carry a discriminant that
\* is not below SHORTHAND_OFFSET.
NextGeneric ==
    \/ Next
    \/ \E ty \in WideUniverse : EncodeTyOp(ty)

SpecGeneric == Init /\ [][NextGeneric]_vars

\* The session that encodes all four scalar-wrapping kinds: types,
\* predicates, regions and constants.
NextKinds ==
    \/ \E ty \in KindsTyUniverse : EncodeTyOp(ty)
    \/ \E b \in KindsBinderUniverse : EncodeBinderOp(b)
    \/ \E r \in RegionUniverse : EncodeRegionOp(r)
    \/ \E c \in ConstUniverse : EncodeConstOp(c)
    \/ Finish
    \/ \E i \in DOMAIN records : DecodeOp(i)

SpecKinds == Init /\ [][NextKinds]_vars

\* One top-level encode on an encoder.
ApplyOp(e, op) ==
    IF op.sel = "ty" THEN EncodeTy(e, op.val) ELSE EncodeBinder(e, op.val)

\* A top-level encode on the second encoder.
OtherEncodeOp(op) ==
    /\ phase = "encoding"
    /\ Len(session2.ops) < MaxOtherOps
    /\ session2' = [enc |-> ApplyOp(session2.enc, op),
                    ops |-> Append(session2.ops, op)]
    /\ UNCHANGED <<base, buf, type_shorthands, predicate_shorthands, trace,
                   records, phase, ty_rcache, dec, tamper, interner,
                   arena, threads, matches, doc, mods, diag, fmt>>

\* Two encoding sessions whose operations interleave in any order.
NextSessions ==
    \/ \E ty \in KindsTyUniverse : EncodeTyOp(ty)
    \/ \E b \in KindsBinderUniverse : EncodeBinderOp(b)
    \/ \E ty \in KindsTyUniverse : OtherEncodeOp([sel |-> "ty", val |-> ty])
    \/ \E b \in KindsBinderUniverse :
          OtherEncodeOp([sel |-> "binder", val |-> b])

SpecSessions == Init /\ [][NextSessions]_vars

\* The call that wrote the last unit of record i: the top-level type, or
\* the body of the binder.
LastUnit(i) ==
    CHOOSE j \in DOMAIN trace :
        /\ records[i].pos <= trace[j].pos /\ trace[j].pos < records[i].end
        /\ \A k \in DOMAIN trace :
              (records[i].pos <= trace[k].pos /\ trace[k].pos < records[i].end)
                  => trace[j].pos + trace[j].len >= trace[k].pos + trace[k].len

\* A stream that no encoder wrote: record i is a two-byte back-reference
\* to a type, or ends with one to a predicate body, and the back-reference
\* names position `target` instead, any position of the stream but its own.
\* The decoder has not run yet.
Redirect(i, target) ==
    /\ phase = "decoding" /\ dec.idx = 0 /\ tamper = Untouched
    /\ trace[LastUnit(i)].hit /\ trace[LastUnit(i)].len = 2
    /\ \/ trace[LastUnit(i)].sel = "pred"
       \/ trace[LastUnit(i)].pos = records[i].pos
    /\ trace[LastUnit(i)].pos + 2 = records[i].end
    /\ InData(target)
    /\ target # trace[LastUnit(i)].pos
    /\ target # trace[LastUnit(i)].sh - SHORTHAND_OFFSET
    /\ Len(Leb128(target + SHORTHAND_OFFSET)) = 2
    /\ buf' = SubSeq(buf, 1, trace[LastUnit(i)].pos - base)
                  \o Leb128(target + SHORTHAND_OFFSET)
                  \o SubSeq(buf, records[i].end - base + 1, Len(buf))
    /\ tamper' = [kind |-> "redirect", idx |-> i,
                  sel |-> trace[LastUnit(i)].sel, target |-> target]
    /\ UNCHANGED <<base, type_shorthands, predicate_shorthands, trace,
                   records, phase, ty_rcache, dec, session2, interner,
                   arena, threads, matches, doc, mods, diag, fmt>>

\* A stream that lost its last n bytes.  The decoder has not run yet.
Truncate(n) ==
    /\ phase = "decoding" /\ dec.idx = 0 /\ tamper = Untouched
    /\ n <= Len(buf)
    /\ buf' = SubSeq(buf, 1, Len(buf) - n)
    /\ tamper' = [kind |-> "cut", idx |-> 0, sel |-> "", target |-> 0]
    /\ UNCHANGED <<base, type_shorthands, predicate_shorthands, trace,
                   records, phase, ty_rcache, dec, session2, interner,
                   arena, threads, matches, doc, mods, diag, fmt>>

\* The decoder over streams that may be malformed.
NextMalformed ==
    \/ \E ty \in KindsTyUniverse : EncodeTyOp(ty)
    \/ \E b \in KindsBinderUniverse : EncodeBinderOp(b)
    \/ Finish
    \/ \E i \in DOMAIN records : \E target \in base .. base + Len(buf) :
          Redirect(i, target)
    \/ \E n \in 1 .. MaxCut : Truncate(n)
    \/ \E i \in DOMAIN records : DecodeOp(i)

SpecMalformed == Init /\ [][NextMalformed]_vars

EncodeTyListOp(ts) ==
    /\ phase = "encoding"
    /\ Len(records) < MaxOps
    /\ Commit(EncodeTyList(CurrentEnc, ts), "tylist", ts)

\* The end of <List<Ty> as RefDecodable>::decode: the decoded elements
\* `r` of record i are interned.
Interned(i, r, m) ==
    /\ r.d.ok
    /\ interner' = [table |-> m.table,
                    log |-> Append(interner.log,
                                   [rec |-> i, handle |-> m.handle])]
    /\ Decoded(i, r)

InternList(i, r) ==
    Interned(i, r, mk_type_list(interner.table, r.val))

\* A top-level decode of the list of types of record i.
DecodeTyListOp(i) ==
    /\ phase = "decoding"
    /\ records[i].sel = "tylist"
    /\ Len(interner.log) < MaxInterns
    /\ InternList(i, DecodeTyList(MkDec(records[i].pos, ty_rcache, TRUE)))
    /\ UNCHANGED <<base, buf, type_shorthands, predicate_shorthands, trace,
                   records, phase, session2, tamper,
                   arena, threads, matches, doc, mods, diag, fmt>>

\* Sessions that encode lists, of types and of bound variables, and decode
\* the lists of types into the interner.
NextLists ==
    \/ \E ts \in TyListUniverse : EncodeTyListOp(ts)
    \/ \E b \in KindsBinderUniverse : EncodeBinderOp(b)
    \/ Finish
    \/ \E i \in DOMAIN records : DecodeTyListOp(i)

SpecLists == Init /\ [][NextLists]_vars

(***************************************************************************)
(* Vocabulary of the properties.                                           *)
(***************************************************************************)
Caches == {type_shorthands, predicate_shorthands}

CacheOf(sel) == IF sel = "ty" THEN type_shorthands ELSE predicate_shorthands

StreamEnd == base + Len(buf)

BytesAt(pos, len) == SubSeq(buf, pos - base + 1, pos - base + len)

RecordSize(i) == records[i].end - records[i].pos

\* Event j is a later occurrence of the value of event i in the same cache.
LaterOccurrence(i, j) ==
    /\ i \in DOMAIN trace /\ j \in DOMAIN trace
    /\ trace[i].sel = trace[j].sel
    /\ trace[i].val = trace[j].val
    /\ trace[i].pos < trace[j].pos

\* The decoder's reading of the unit an event wrote, from position `pos`.
DecodeUnit(sel, pos) ==
    IF sel = "ty"
    THEN DecodeTy(MkDec(pos, ty_rcache, TRUE))
    ELSE DecodePredBody(MkDec(pos, ty_rcache, TRUE))

\* The decoder's reading of a full payload that starts at `pos`.
DecodeFull(sel, pos) ==
    IF sel = "ty"
    THEN InternTy(DecodeKind(MkDec(pos, ty_rcache, TRUE), "ty"))
    ELSE DecodeKind(MkDec(pos, ty_rcache, TRUE), "pred")

\* start + 0x80 < 2^(len * 7), by plain arithmetic.  Beyond 28 bits the
\* power exceeds every position of the model.
BelowPower(start, len) ==
    IF len * 7 <= 28 THEN start + 128 < 2 ^ (len * 7) ELSE TRUE

(***************************************************************************)
(* Properties.                                                             *)
(***************************************************************************)

\* C1: round trip.  Decoding any record of the finished stream, after any
\* earlier encodes and decodes, succeeds, yields the value that was encoded
\* and leaves the cursor at the end of the record.
C1_RoundTrip ==
    dec.idx # 0 =>
        /\ dec.ok
        /\ dec.val = records[dec.idx].val
        /\ dec.pos = records[dec.idx].end

\* A record holding nested back-references, written after other records,
\* has been decoded.
C1_Witness ==
    /\ dec.idx = 3
    /\ dec.ok
    /\ records[3].val = TyTuple
    /\ \E i \in DOMAIN trace :
          /\ trace[i].hit
          /\ records[3].pos < trace[i].pos /\ trace[i].pos < records[3].end

\* C2: decoding the back-reference an encoder wrote for a value yields the
\* same handle as decoding the full payload at the position where the
\* encoder first wrote that value; so two occurrences of one value decode
\* to equal handles.
C2_ShorthandEqualsFull ==
    phase = "decoding" =>
        \A i, j \in DOMAIN trace :
            (LaterOccurrence(i, j) /\ trace[i].inserted /\ trace[j].hit) =>
                LET short == DecodeUnit(trace[j].sel, trace[j].pos)
                    full == DecodeFull(trace[i].sel, trace[i].pos)
                    first == DecodeUnit(trace[i].sel, trace[i].pos)
                IN  /\ short.d.ok /\ full.d.ok /\ first.d.ok
                    /\ short.val = full.val
                    /\ short.val = first.val

\* Back-references to a type and to a predicate body are in the stream and
\* the decoder has run, with a type already in its position cache.
C2_Witness ==
    /\ phase = "decoding"
    /\ dec.idx # 0
    /\ DOMAIN ty_rcache # {}
    /\ \E j \in DOMAIN trace : trace[j].hit /\ trace[j].sel = "ty"
    /\ \E j \in DOMAIN trace : trace[j].hit /\ trace[j].sel = "pred"

\* C3 as stated: a later occurrence of a value occupies strictly fewer
\* bytes than an earlier one.
C3_StrictlySmaller ==
    /\ \A i, j \in DOMAIN trace :
          LaterOccurrence(i, j) => trace[j].len < trace[i].len
    /\ \A i, j \in DOMAIN records :
          (i < j /\ records[i].sel = records[j].sel
                 /\ records[i].val = records[j].val) =>
              RecordSize(j) < RecordSize(i)

\* C3 amended: a later occurrence of a value never occupies more bytes than
\* an earlier one.
C3_NeverLarger ==
    /\ \A i, j \in DOMAIN trace :
          LaterOccurrence(i, j) => trace[j].len <= trace[i].len
    /\ \A i, j \in DOMAIN records :
          (i < j /\ records[i].sel = records[j].sel
                 /\ records[i].val = records[j].val) =>
              RecordSize(j) <= RecordSize(i)

\* One value encoded twice, the second time as a back-reference shorter
\* than the payload, and once more without getting shorter.
C3_Witness ==
    /\ \E i, j \in DOMAIN trace :
          LaterOccurrence(i, j) /\ trace[j].hit /\ trace[j].len < trace[i].len
    /\ \E i, j \in DOMAIN trace :
          LaterOccurrence(i, j) /\ trace[j].len = trace[i].len

\* C4 as stated: every later encode of a value already encoded in the
\* session is a back-reference.
C4_AlwaysBackReference ==
    \A i, j \in DOMAIN trace : LaterOccurrence(i, j) => trace[j].hit

\* C4 amended: once a value's shorthand is in the cache, every later encode
\* of the value writes that shorthand as one LEB128 integer and nothing
\* else.
C4_BackReferenceOnceCached ==
    \A i, j \in DOMAIN trace :
        (LaterOccurrence(i, j) /\ trace[i].inserted) =>
            /\ trace[j].hit
            /\ trace[j].sh = trace[i].sh
            /\ BytesAt(trace[j].pos, trace[j].len) = Leb128(trace[i].sh)
            /\ \A k \in DOMAIN trace :
                  ~(trace[j].pos <= trace[k].pos /\ k # j
                    /\ trace[k].pos < trace[j].pos + trace[j].len)

\* A cached value has been encoded two more times.
C4_Witness ==
    \E i, j, k \in DOMAIN trace :
        /\ LaterOccurrence(i, j) /\ LaterOccurrence(j, k)
        /\ trace[i].inserted /\ trace[j].hit /\ trace[k].hit

\* C5: every cached shorthand is at least SHORTHAND_OFFSET and names a
\* position of the session strictly before the encoder's position, at the
\* moment it is inserted and ever after; every back-reference written names
\* a position strictly before its own.
C5_PointsBackward ==
    /\ \A c \in Caches : \A v \in DOMAIN c :
          /\ c[v] >= 128
          /\ c[v] - 128 >= base
          /\ c[v] - 128 < StreamEnd
    /\ \A i \in DOMAIN trace :
          trace[i].inserted =>
              /\ trace[i].sh >= 128
              /\ trace[i].sh - 128 < trace[i].pos + trace[i].len
    /\ \A j \in DOMAIN trace :
          trace[j].hit =>
              /\ trace[j].sh >= 128
              /\ trace[j].sh - 128 >= base
              /\ trace[j].sh - 128 < trace[j].pos

\* Both caches hold a shorthand and a back-reference has been written.
C5_Witness ==
    /\ DOMAIN type_shorthands # {}
    /\ DOMAIN predicate_shorthands # {}
    /\ \E j \in DOMAIN trace : trace[j].hit

\* C6: a shorthand is inserted only if its LEB128 encoding takes no more
\* bytes than the payload just written.
C6_ShorthandNotLonger ==
    \A i \in DOMAIN trace :
        trace[i].inserted =>
            /\ CacheOf(trace[i].sel)[trace[i].val] = trace[i].sh
            /\ Len(Leb128(trace[i].sh)) <= trace[i].len

\* A shorthand exactly as long as its payload, one shorter than its
\* payload, and a payload left out of the cache have all occurred.
C6_Witness ==
    /\ \E i \in DOMAIN trace :
          trace[i].inserted /\ Len(Leb128(trace[i].sh)) = trace[i].len
    /\ \E i \in DOMAIN trace :
          trace[i].inserted /\ Len(Leb128(trace[i].sh)) < trace[i].len
    /\ \E i \in DOMAIN trace :
          ~trace[i].hit /\ trace[i].done /\ ~trace[i].inserted
          /\ trace[i].len = 2

\* C7: a one-byte payload first encoded at stream offset 0 is not cached,
\* and every later encode of it writes the payload byte again.
C7_MinimalNotCached ==
    \A i \in DOMAIN trace :
        (trace[i].pos = 0 /\ trace[i].len = 1 /\ ~trace[i].hit
         /\ trace[i].done) =>
            /\ ~trace[i].inserted
            /\ trace[i].val \notin DOMAIN CacheOf(trace[i].sel)
            /\ \A j \in DOMAIN trace :
                  LaterOccurrence(i, j) =>
                      /\ ~trace[j].hit
                      /\ BytesAt(trace[j].pos, trace[j].len)
                           = <<trace[i].val.disc>>

\* The minimal payload was encoded at offset 0 and then again.
C7_Witness ==
    \E i, j \in DOMAIN trace :
        /\ LaterOccurrence(i, j)
        /\ trace[i].pos = 0 /\ trace[i].len = 1 /\ trace[i].val = TyBool

\* C8: on a miss that completes, (value, start + 0x80) is inserted if and
\* only if len * 7 >= 64 or start + 0x80 < 2^(len * 7); the caches hold
\* exactly the entries inserted that way.
C8_InsertIff ==
    /\ \A i \in DOMAIN trace :
          (~trace[i].hit /\ trace[i].done) =>
              /\ trace[i].inserted <=>
                    (trace[i].len * 7 >= 64
                     \/ BelowPower(trace[i].pos, trace[i].len))
              /\ trace[i].inserted => trace[i].sh = trace[i].pos + 128
    /\ \A sel \in {"ty", "pred"} :
          /\ \A v \in DOMAIN CacheOf(sel) :
                \E i \in DOMAIN trace :
                    /\ trace[i].inserted /\ trace[i].sel = sel
                    /\ trace[i].val = v /\ trace[i].sh = CacheOf(sel)[v]
          /\ \A i \in DOMAIN trace :
                (trace[i].sel = sel /\ ~trace[i].hit /\ ~trace[i].inserted) =>
                    trace[i].val \notin DOMAIN CacheOf(sel)

\* Misses on both sides of the test: inserted because the shorthand fits,
\* inserted because the payload has ten bytes or more, and left out.
C8_Witness ==
    /\ \E i \in DOMAIN trace :
          trace[i].inserted /\ trace[i].len * 7 < 64
    /\ \E i \in DOMAIN trace :
          trace[i].inserted /\ trace[i].len * 7 >= 64
    /\ \E i \in DOMAIN trace :
          ~trace[i].hit /\ trace[i].done /\ ~trace[i].inserted
          /\ trace[i].len >= 2

\* C9: a payload whose discriminant is not below SHORTHAND_OFFSET stops
\* the encoder at the assertion: the call does not complete, the session
\* is over, and no cache holds a shorthand for the value.
C9_AssertionAborts ==
    /\ \A i \in DOMAIN trace :
          trace[i].val.disc >= 128 =>
              /\ ~trace[i].done
              /\ ~trace[i].inserted
              /\ phase = "panicked"
              /\ i = Len(trace)
    /\ \A c \in Caches : \A v \in DOMAIN c : v.disc < 128
    /\ phase = "panicked" <=>
          (trace # <<>> /\ trace[Len(trace)].val.disc >= 128)

\* The assertion has failed inside the encoding of an enclosing type,
\* after a shorthand was recorded for another value.
C9_Witness ==
    /\ phase = "panicked"
    /\ records[Len(records)].val = TySliceWide
    /\ DOMAIN type_shorthands # {}

\* C10: the first byte of every shorthand is at least 0x80, the first byte
\* of every plain record is its discriminant, below 0x80, and the decoder's
\* test tells every unit the encoder completed for what it is.
C10_NoAlias ==
    /\ \A d \in 0 .. 127 : Leb128(d) = <<d>>
    /\ \A start \in base .. StreamEnd : Leb128(start + 128)[1] >= 128
    /\ \A c \in Caches : \A v \in DOMAIN c : Leb128(c[v])[1] >= 128
    /\ \A i \in DOMAIN trace :
          trace[i].done =>
              /\ trace[i].hit => ByteAt(trace[i].pos) >= 128
              /\ ~trace[i].hit =>
                    /\ ByteAt(trace[i].pos) = trace[i].val.disc
                    /\ ByteAt(trace[i].pos) < 128
              /\ positioned_at_shorthand(MkDec(trace[i].pos, <<>>, TRUE))
                    <=> trace[i].hit

\* The smallest shorthand (0x80, low seven bits all zero), another
\* shorthand and plain records are in one stream.
C10_Witness ==
    /\ \E i \in DOMAIN trace :
          trace[i].hit /\ trace[i].sh = 128 /\ ByteAt(trace[i].pos) = 128
    /\ \E i \in DOMAIN trace : trace[i].hit /\ trace[i].sh > 128
    /\ \E i \in DOMAIN trace : ~trace[i].hit /\ trace[i].done

\* The decoder's reading of a unit from position `pos`, with position
\* cache `rc`.
DecodeUnitWith(sel, pos, rc) ==
    IF sel = "ty"
    THEN DecodeTy(MkDec(pos, rc, TRUE))
    ELSE DecodePredBody(MkDec(pos, rc, TRUE))

\* The encode_with_shorthand calls made while record i was written.
SpanEvents(i) ==
    {j \in DOMAIN trace :
        records[i].pos <= trace[j].pos /\ trace[j].pos < records[i].end}

\* The positions the decoder `d` moved its cursor to.
Sought(d) == {d.seeks[k] : k \in DOMAIN d.seeks}

\* C11: following a back-reference leaves the cursor immediately after the
\* shorthand integer, whatever the decode at the target consumed and
\* whether or not it followed further back-references: a decoder placed on
\* any back-reference of the stream, with an empty position cache or with
\* the session's, moves its cursor to the target and ends right after the
\* integer.
C11_CursorRestored ==
    phase = "decoding" =>
        \A j \in DOMAIN trace :
            trace[j].hit =>
                \A rc \in {<<>>, ty_rcache} :
                    LET r == DecodeUnitWith(trace[j].sel, trace[j].pos, rc)
                        target == <<trace[j].sel, trace[j].sh - SHORTHAND_OFFSET>>
                    IN  /\ r.d.ok
                        /\ r.d.pos = trace[j].pos + trace[j].len
                        /\ (rc = <<>> \/ trace[j].sel = "pred") =>
                               /\ r.d.seeks # <<>>
                               /\ r.d.seeks[1] = target

\* A record that is a back-reference whose target holds a further
\* back-reference has been decoded, the nested one followed too, and the
\* cursor is at the end of the record.
C11_Witness ==
    /\ phase = "decoding"
    /\ dec.idx # 0 /\ dec.ok /\ dec.pos = records[dec.idx].end
    /\ \E j \in DOMAIN trace :
          /\ trace[j].hit /\ trace[j].sel = "ty"
          /\ trace[j].pos = records[dec.idx].pos
          /\ Len(DecodeUnitWith("ty", trace[j].pos, <<>>).d.seeks) >= 2
          /\ DecodeUnitWith("ty", trace[j].pos, <<>>).d.pos = trace[j].pos + 2
          /\ dec.pos = trace[j].pos + 2

\* The back-references to a type and to a predicate body that were written
\* in record i.
BackReferences(i) == {j \in SpanEvents(i) : trace[j].hit}

\* The decoder as the last top-level decode left it, placed on record i
\* again.
DecodeAgain(i) == DecodeRecord(i)

\* C12 as stated: for types and predicate bodies alike, the first shorthand
\* to a position caches the decoded entity and later ones return it without
\* decoding the payload again: once a record has been decoded, decoding it
\* again moves the cursor to no back-reference's position.
C12_EveryKindCached ==
    dec.idx # 0 => DecodeAgain(dec.idx).d.seeks = <<>>

\* C12 amended: the decoder keeps a position -> type cache.  A type
\* shorthand to a cached position returns the cached type without moving
\* the cursor; one to a position not yet cached moves the cursor there and
\* caches the type decoded; the cache holds, for each position, the type
\* that is decoded there.  Predicate bodies have no such cache: every
\* shorthand to a predicate body, also of a record decoded before, moves
\* the cursor to its position and decodes the payload again.
C12_TypesCachedOnly ==
    phase = "decoding" =>
        /\ \A p \in DOMAIN ty_rcache :
              ty_rcache[p] = DecodeUnitWith("ty", p, <<>>).val
        /\ \A j \in DOMAIN trace :
              (trace[j].hit /\ trace[j].sel = "ty") =>
                  LET p == trace[j].sh - SHORTHAND_OFFSET
                      r == DecodeUnitWith("ty", trace[j].pos, ty_rcache)
                  IN  IF p \in DOMAIN ty_rcache
                      THEN r.d.seeks = <<>> /\ r.val = ty_rcache[p]
                                            /\ r.d.rcache = ty_rcache
                      ELSE /\ r.d.seeks # <<>> /\ r.d.seeks[1] = <<"ty", p>>
                           /\ p \in DOMAIN r.d.rcache
                           /\ r.d.rcache[p] = r.val
                           /\ \A k, l \in DOMAIN r.d.seeks :
                                 r.d.seeks[k] = r.d.seeks[l] => k = l
        /\ \A i \in DOMAIN records :
              dec.idx = i =>
                  /\ \A s \in Sought(DecodeAgain(i).d) : s[1] = "pred"
                  /\ \A j \in BackReferences(i) :
                        trace[j].sel = "pred" =>
                            <<"pred", trace[j].sh - SHORTHAND_OFFSET>>
                                \in Sought(DecodeAgain(i).d)

\* A binder whose body is a back-reference has been decoded, and decoding
\* it again moves the cursor to the body's position again, while the type
\* back-references of the stream are answered from the cache without a
\* cursor move.
C12_Witness ==
    /\ dec.idx # 0 /\ dec.ok
    /\ records[dec.idx].sel = "binder"
    /\ \E j \in BackReferences(dec.idx) :
          /\ trace[j].sel = "pred"
          /\ DecodeAgain(dec.idx).d.seeks =
                 <<(<<"pred", trace[j].sh - SHORTHAND_OFFSET>>)>>
    /\ \E j \in DOMAIN trace :
          /\ trace[j].hit /\ trace[j].sel = "ty"
          /\ trace[j].sh - SHORTHAND_OFFSET \in DOMAIN ty_rcache
          /\ DecodeUnitWith("ty", trace[j].pos, ty_rcache).d.seeks = <<>>

\* The bytes of a list of integers, and of a bound-variable list with its
\* length in front.
RECURSIVE ListBytes(_)
ListBytes(seq) ==
    IF seq = <<>> THEN <<>> ELSE Leb128(Head(seq)) \o ListBytes(Tail(seq))

BoundVarBytes(bv) == Leb128(Len(bv)) \o ListBytes(bv)

\* The encode_with_shorthand calls on a predicate body within record i.
BodyEvents(i) ==
    {j \in DOMAIN trace :
        /\ trace[j].sel = "pred"
        /\ records[i].pos <= trace[j].pos /\ trace[j].pos < records[i].end}

\* The body of binder record i was written as a back-reference.
BodyIsBackReference(i) == \A j \in BodyEvents(i) : trace[j].hit

\* C13 as stated: of two encodes of one binder-wrapped predicate in a
\* session, the second writes its body as a back-reference.
C13_SecondBodyBackReference ==
    \A i, j \in DOMAIN records :
        ( /\ i < j /\ records[i].sel = "binder"
          /\ records[j].sel = "binder" /\ records[i].val = records[j].val ) =>
            BodyIsBackReference(j)

\* C13 amended: every binder record starts with its bound-variable list in
\* full, length first, with no shorthand inside it; the decoder reads the
\* list first without following any back-reference; the shorthand logic
\* applies to the body only, which is a back-reference exactly when an
\* earlier encode recorded the body's shorthand, and then the record is
\* the list followed by the shorthand integer.
C13_BoundVarsInFull ==
    \A i \in DOMAIN records :
        records[i].sel = "binder" =>
            LET bv == records[i].val.bound_vars
                n == Len(BoundVarBytes(bv))
                list == BoundVars(read_usize(MkDec(records[i].pos, <<>>, TRUE)))
            IN  /\ list.d.ok /\ list.val = bv
                /\ list.d.pos = records[i].pos + n /\ list.d.seeks = <<>>
                /\ BytesAt(records[i].pos, n) = BoundVarBytes(bv)
                /\ \A j \in DOMAIN trace :
                      ~( records[i].pos <= trace[j].pos
                         /\ trace[j].pos < records[i].pos + n )
                /\ Cardinality(BodyEvents(i)) = 1
                /\ \A j \in BodyEvents(i) :
                      /\ trace[j].pos = records[i].pos + n
                      /\ trace[j].val = records[i].val.body
                      /\ trace[j].hit <=>
                             \E k \in DOMAIN trace :
                                 LaterOccurrence(k, j) /\ trace[k].inserted
                      /\ trace[j].hit =>
                             records[i].end = trace[j].pos + trace[j].len

\* A predicate with two bound variables has been encoded twice, the list
\* written twice in full and the second body as a back-reference, and the
\* second record has been decoded.
C13_Witness ==
    \E i, j \in DOMAIN records :
        /\ i < j /\ records[i].sel = "binder" /\ records[i].val = records[j].val
        /\ Len(records[i].val.bound_vars) = 2
        /\ BytesAt(records[i].pos, 3) = BytesAt(records[j].pos, 3)
        /\ BodyIsBackReference(j) /\ RecordSize(j) < RecordSize(i)
        /\ dec.idx = j /\ dec.ok

\* The cache a scalar-wrapping kind would have for itself.
OwnCache(sel) == IF sel = "binder" THEN "pred" ELSE sel

\* The value of a record that the shorthand logic would apply to.
ShorthandValue(r) == IF r.sel = "binder" THEN r.val.body ELSE r.val

\* The plain bytes of a kind that has no nested types.
PlainKindBytes(k) == Leb128(k.disc) \o ListBytes(k.data)

\* C14 as stated: each of Type, Predicate, Region and Constant is encoded
\* through encode_with_shorthand with a cache of its own: every record
\* holds a call for its value on the cache of its kind.
C14_AllFourShorthand ==
    \A i \in DOMAIN records :
        \E j \in SpanEvents(i) :
            /\ trace[j].sel = OwnCache(records[i].sel)
            /\ trace[j].val = ShorthandValue(records[i])

\* C14 amended: types and predicate bodies are encoded through
\* encode_with_shorthand, each on its own cache, and there are no other
\* caches.  A region is written as its plain kind on every occurrence; a
\* constant is written as its type (through the type cache) followed by its
\* plain kind.  Regions and constants decode to the value encoded.
C14_TypesAndPredicatesOnly ==
    /\ \A j \in DOMAIN trace : trace[j].sel \in {"ty", "pred"}
    /\ \A i \in DOMAIN records :
          LET r == records[i] IN
          /\ r.sel \in {"ty", "binder"} =>
                \E j \in SpanEvents(i) :
                    /\ trace[j].sel = OwnCache(r.sel)
                    /\ trace[j].val = ShorthandValue(r)
                    /\ trace[j].pos + trace[j].len = r.end
          /\ r.sel = "region" =>
                /\ SpanEvents(i) = {}
                /\ BytesAt(r.pos, RecordSize(i)) = PlainKindBytes(r.val)
          /\ r.sel = "const" =>
                \E j \in SpanEvents(i) :
                    /\ trace[j].sel = "ty" /\ trace[j].pos = r.pos
                    /\ trace[j].val = r.val.ty
                    /\ BytesAt(trace[j].pos + trace[j].len,
                               r.end - (trace[j].pos + trace[j].len))
                           = PlainKindBytes(r.val.kind)
                    /\ \A k \in SpanEvents(i) :
                          trace[k].pos < trace[j].pos + trace[j].len
          /\ (dec.idx = i /\ r.sel \in {"region", "const"}) =>
                dec.ok /\ dec.val = r.val /\ dec.pos = r.end

\* A three-byte region has been encoded twice, in full both times, in a
\* session that also encoded a constant, and the constant has been decoded.
C14_Witness ==
    /\ \E i, j \in DOMAIN records :
          /\ i < j /\ records[i].sel = "region" /\ records[i].val = records[j].val
          /\ RecordSize(i) = 3 /\ RecordSize(j) = 3
    /\ \E i \in DOMAIN records :
          /\ records[i].sel = "const"
          /\ \E k \in SpanEvents(i) : trace[k].inserted
          /\ dec.idx = i /\ dec.ok

\* A type and the types nested in it; the types nested in a predicate body.
RECURSIVE TypesIn(_)
TypesIn(ty) == {ty} \cup UNION {TypesIn(ty.args[k]) : k \in DOMAIN ty.args}

TypesInBody(body) == UNION {TypesIn(body.args[k]) : k \in DOMAIN body.args}

\* Cache `after` keeps every entry of cache `before`.
Extends(after, before) ==
    \A v \in DOMAIN before : v \in DOMAIN after /\ after[v] = before[v]

\* C15: the caches are separate per entity kind.  A top-level encode of a
\* type leaves the predicate cache unchanged and adds to the type cache
\* only the type and types nested in it; a top-level encode of a predicate
\* adds to the predicate cache at most its body, and to the type cache only
\* types nested in the body.  Every call looks its value up in the cache of
\* its own kind: it writes a back-reference exactly when that cache held the
\* value, and the back-reference is that cache's entry.
C15_CachesSeparate ==
    [][ Len(records') = Len(records) + 1 =>
        LET r == records'[Len(records')]
            newTy == DOMAIN type_shorthands' \ DOMAIN type_shorthands
            newPk == DOMAIN predicate_shorthands' \ DOMAIN predicate_shorthands
        IN  /\ Extends(type_shorthands', type_shorthands)
            /\ Extends(predicate_shorthands', predicate_shorthands)
            /\ r.sel = "ty" =>
                  /\ predicate_shorthands' = predicate_shorthands
                  /\ newTy \subseteq TypesIn(r.val)
            /\ r.sel = "binder" =>
                  /\ newPk \subseteq {r.val.body}
                  /\ newTy \subseteq TypesInBody(r.val.body)
            /\ \A j \in DOMAIN trace' \ DOMAIN trace :
                  LET ev == trace'[j]
                      before == IF ev.sel = "ty" THEN type_shorthands
                                ELSE predicate_shorthands
                      after == IF ev.sel = "ty" THEN type_shorthands'
                               ELSE predicate_shorthands'
                  IN  /\ ev.hit => ev.val \in DOMAIN after /\ ev.sh = after[ev.val]
                      /\ ~ev.hit => ev.val \notin DOMAIN before
                      /\ ev.inserted => ev.val \in DOMAIN after
                                        /\ after[ev.val] = ev.sh
      ]_vars

\* A type was encoded while the predicate cache held an entry, and a
\* predicate whose body holds nested types was encoded while the type cache
\* held entries: both caches are filled, the predicate cache with bodies
\* only.
C15_Witness ==
    /\ Len(records) = 3
    /\ records[1].sel = "binder" /\ records[2].sel = "ty"
    /\ records[3].sel = "binder" /\ records[3].val.body.args # <<>>
    /\ DOMAIN predicate_shorthands = {records[1].val.body, records[3].val.body}
    /\ Cardinality(DOMAIN predicate_shorthands) = 2
    /\ records[2].val \in DOMAIN type_shorthands
    /\ TypesInBody(records[3].val.body) \subseteq DOMAIN type_shorthands

\* An encoder after running operations `ops` one after the other.
RECURSIVE ReplayOps(_, _)
ReplayOps(e, ops) ==
    IF ops = <<>> THEN e ELSE ReplayOps(ApplyOp(e, Head(ops)), Tail(ops))

\* The first call of a history for its value is not a back-reference.
FirstUseInFull(tr) ==
    \A j \in DOMAIN tr :
        tr[j].hit =>
            \E i \in DOMAIN tr :
                i < j /\ tr[i].sel = tr[j].sel /\ tr[i].val = tr[j].val

\* C16: two encoding sessions share no state.  Whatever the interleaving
\* of their operations, each encoder holds the bytes and the caches it
\* would hold had it run its own operations alone from a fresh encoder; and
\* no encoder writes a back-reference for a value it did not encode itself.
C16_SessionsIndependent ==
    /\ CurrentEnc = ReplayOps(FreshEnc, records)
    /\ session2.enc = ReplayOps(FreshEnc, session2.ops)
    /\ FirstUseInFull(trace)
    /\ FirstUseInFull(session2.enc.trace)

\* Both encoders have run operations, and each has written in full, on
\* first use, a value that the other one had already cached.
C16_Witness ==
    /\ Len(records) >= 2 /\ Len(session2.ops) = 2
    /\ \E ty \in DOMAIN type_shorthands : ty \in DOMAIN session2.enc.tsh
    /\ \E pk \in DOMAIN predicate_shorthands : pk \in DOMAIN session2.enc.psh
    /\ \E j \in DOMAIN trace : trace[j].hit
    /\ session2.enc.buf # buf

\* Record k is an encode of TySlice3U8, which holds TyU8 three levels
\* down, and call i cached TyU8 before that record.
NestedSharing(i, k) ==
    /\ k \in DOMAIN records /\ i \in DOMAIN trace
    /\ records[k].sel = "ty" /\ records[k].val = TySlice3U8
    /\ trace[i].sel = "ty" /\ trace[i].val = TyU8 /\ trace[i].inserted
    /\ trace[i].pos < records[k].pos

\* A type that encloses the nested TyU8 of TySlice3U8 was cached before
\* record k.
EnclosingCached(k) ==
    \E m \in DOMAIN trace :
        /\ trace[m].sel = "ty" /\ trace[m].inserted
        /\ trace[m].pos < records[k].pos
        /\ trace[m].val \in {TySliceU8, TySlice2U8, TySlice3U8}

\* The nested occurrence of record k is written as the shorthand of call i.
NestedAsShorthand(i, k) ==
    \E j \in SpanEvents(k) :
        /\ trace[j].hit /\ trace[j].val = trace[i].val
        /\ trace[j].sh = trace[i].pos + SHORTHAND_OFFSET

\* C17 as stated: whenever T0 was cached earlier in the session, encoding
\* a T1 that holds T0 three levels down writes the nested occurrence as the
\* shorthand of T0's start.
C17_NestedAlwaysShorthand ==
    \A k \in DOMAIN records : \A i \in DOMAIN trace :
        NestedSharing(i, k) => NestedAsShorthand(i, k)

\* C17 amended: the nested occurrence is written as the shorthand of T0's
\* start (T0's start + 0x80) when neither T1 nor a type between T1 and T0
\* is itself cached; when one is, the outermost such type is written as a
\* shorthand and T0's occurrence is not written at all.  Either way the
\* decoded T1 holds, three levels down, the handle that decoding T0 yields.
C17_NestedSharing ==
    \A k \in DOMAIN records : \A i \in DOMAIN trace :
        NestedSharing(i, k) =>
            /\ ~EnclosingCached(k) =>
                  /\ NestedAsShorthand(i, k)
                  /\ BytesAt(records[k].pos, RecordSize(k)) =
                         <<9, 9, 9>> \o Leb128(trace[i].pos + SHORTHAND_OFFSET)
            /\ EnclosingCached(k) =>
                  /\ \A j \in SpanEvents(k) : trace[j].val # trace[i].val
                  /\ \E j \in SpanEvents(k) : trace[j].hit
            /\ phase = "decoding" =>
                  \A rc \in {<<>>, ty_rcache} :
                      LET t1 == DecodeUnitWith("ty", records[k].pos, rc)
                          t0 == DecodeUnitWith("ty", trace[i].pos, rc)
                      IN  /\ t1.d.ok /\ t0.d.ok
                          /\ t1.val.args[1].args[1].args[1] = t0.val
                          /\ t1.val = records[k].val

\* TyU8 was encoded and cached, then TySlice3U8 was encoded with the nested
\* TyU8 as a shorthand of TyU8's start, and the record has been decoded.
C17_Witness ==
    \E k \in DOMAIN records : \E i \in DOMAIN trace :
        /\ NestedSharing(i, k) /\ ~EnclosingCached(k)
        /\ NestedAsShorthand(i, k)
        /\ RecordSize(k) = 5
        /\ dec.idx = k /\ dec.ok
        /\ dec.val.args[1].args[1].args[1] = TyU8

\* The positions at which the encoder started a unit or a record.
RecordStarts ==
    {trace[j].pos : j \in DOMAIN trace} \cup
    {records[i].pos : i \in DOMAIN records}

\* The redirected back-reference names no start of an earlier record.
NoEarlierRecord ==
    /\ tamper.kind = "redirect"
    /\ \/ tamper.target \notin RecordStarts
       \/ tamper.target >= records[tamper.idx].end - 2

\* What the decoder reads at the position the redirected back-reference
\* names.
TargetDecode == with_position(MkDec(base, <<>>, TRUE), tamper.target, tamper.sel)

\* The value the shorthand logic applies to, of a decoded record.
DecodedUnit == IF tamper.sel = "pred" THEN dec.val.body ELSE dec.val

C19_ListDecode ==
    phase = "decoding" =>
        \A i \in DOMAIN records :
            /\ records[i].sel = "tylist" =>
                  \A rc \in {<<>>, ty_rcache} :
                      LET r == DecodeTyList(MkDec(records[i].pos, rc, TRUE))
                      IN  /\ r.d.ok
                          /\ Len(r.val) = ByteAt(records[i].pos)
                          /\ r.val = records[i].val
                          /\ r.d.pos = records[i].end
            /\ records[i].sel = "binder" =>
                  LET r == BoundVars(read_usize(MkDec(records[i].pos, <<>>, TRUE)))
                  IN  /\ r.d.ok
                      /\ Len(r.val) = ByteAt(records[i].pos)
                      /\ r.val = records[i].val.bound_vars
                      /\ r.d.pos = records[i].pos + 1 + Len(r.val)

\* A list of two different types written with back-references only, an
\* empty list and a list of two bound variables are in a finished stream,
\* and the list of two types has been decoded.
C19_Witness ==
    /\ phase = "decoding"
    /\ \E i \in DOMAIN records :
          /\ records[i].sel = "tylist" /\ Len(records[i].val) = 2
          /\ records[i].val[1] # records[i].val[2]
          /\ \A j \in SpanEvents(i) : trace[j].hit
          /\ dec.idx = i /\ dec.ok /\ dec.val = records[i].val
    /\ \E i \in DOMAIN records :
          records[i].sel = "binder" /\ Len(records[i].val.bound_vars) = 2

\* The handles the interner gave, as log entries.
Handles == {interner.log[k] : k \in DOMAIN interner.log}

\* C20: interning is idempotent and content-addressed.  Two decoded lists
\* get equal handles exactly when their elements are equal, whatever the
\* order of the calls and whatever was interned in between; a handle stands
\* for the elements it was given for; the table never holds a list twice.
C20_InternContentAddressed ==
    /\ \A a, b \in Handles :
          (a.handle = b.handle) <=> (records[a.rec].val = records[b.rec].val)
    /\ \A a \in Handles :
          /\ a.handle \in DOMAIN interner.table
          /\ interner.table[a.handle] = records[a.rec].val
    /\ \A h, g \in DOMAIN interner.table :
          interner.table[h] = interner.table[g] => h = g

\* The list [A, B] has been interned from two records, the second one
\* written with back-references only, with the list [A, C] interned in
\* between: the two [A, B] got one handle and [A, C] another.
C20_Witness ==
    /\ Len(interner.log) = 3
    /\ interner.log[1].rec = 1 /\ interner.log[2].rec = 2
    /\ interner.log[3].rec = 3
    /\ records[1].val = <<TyU8, TySliceU8>>
    /\ records[2].val = <<TyU8, TyBool>>
    /\ records[3].val = <<TyU8, TySliceU8>>
    /\ BytesAt(records[1].pos, RecordSize(1)) # BytesAt(records[3].pos, RecordSize(3))
    /\ interner.log[1].handle = interner.log[3].handle
    /\ interner.log[1].handle # interner.log[2].handle

\* The kinds of value that have a cache, and the values a cache holds.
CachedKinds == {"ty", "pred"}

Cached(sel) == DOMAIN CacheOf(sel)

\* C24: on a cache hit encode_with_shorthand writes one variable-length
\* integer, the cached shorthand, and nothing else.  Encoding any cached
\* value from any state of a session appends the integer's bytes to the
\* stream, makes no nested call and leaves both caches as they were; and
\* every back-reference already in the stream is that integer alone, with no
\* other call inside its bytes.
C24_HitWritesOnlyShorthand ==
    /\ phase = "encoding" =>
          \A sel \in CachedKinds : \A v \in Cached(sel) :
              LET e == encode_with_shorthand(CurrentEnc, v, sel) IN
              /\ e.buf = buf \o Leb128(CacheOf(sel)[v])
              /\ e.tsh = type_shorthands /\ e.psh = predicate_shorthands
              /\ Len(e.trace) = Len(trace) + 1
              /\ e.trace[Len(e.trace)].hit
              /\ e.ok
    /\ \A j \in DOMAIN trace :
          trace[j].hit =>
              /\ trace[j].len = Len(Leb128(trace[j].sh))
              /\ BytesAt(trace[j].pos, trace[j].len) = Leb128(trace[j].sh)
              /\ trace[j].val \in Cached(trace[j].sel)
              /\ CacheOf(trace[j].sel)[trace[j].val] = trace[j].sh
              /\ \A k \in DOMAIN trace :
                    ( /\ trace[j].pos <= trace[k].pos
                      /\ trace[k].pos < trace[j].pos + trace[j].len ) => k = j

\* A type that holds nested types and a predicate body have each been
\* written as a back-reference, while both caches hold entries.
C24_Witness ==
    /\ phase = "encoding"
    /\ \E j \in DOMAIN trace :
          trace[j].hit /\ trace[j].sel = "ty" /\ trace[j].val.args # <<>>
    /\ \E j \in DOMAIN trace : trace[j].hit /\ trace[j].sel = "pred"
    /\ Cached("ty") # {} /\ Cached("pred") # {}

\* The first call of encode_with_shorthand for a value of a kind.
FirstCall(i) ==
    \A k \in DOMAIN trace :
        (trace[k].sel = trace[i].sel /\ trace[k].val = trace[i].val) => i <= k

\* C25: the offset cached for a value is the stream position at which the
\* value's payload was first written in full.  An entry is made by the first
\* encoding of the value or never, and it is neither overwritten nor
\* removed: whatever was inserted is still in the cache, unchanged.
C25_CachedAtFirstEncoding ==
    /\ \A sel \in CachedKinds : \A v \in Cached(sel) :
          \E i \in DOMAIN trace :
              /\ trace[i].sel = sel /\ trace[i].val = v
              /\ FirstCall(i)
              /\ ~trace[i].hit /\ trace[i].inserted
              /\ CacheOf(sel)[v] = trace[i].pos + SHORTHAND_OFFSET
    /\ \A i \in DOMAIN trace :
          trace[i].inserted =>
              /\ FirstCall(i)
              /\ trace[i].val \in Cached(trace[i].sel)
              /\ CacheOf(trace[i].sel)[trace[i].val]
                     = trace[i].pos + SHORTHAND_OFFSET
    /\ \A i \in DOMAIN trace :
          (~trace[i].hit /\ ~FirstCall(i)) => ~trace[i].inserted

\* One predicate body was cached by its first encoding and written again as
\* a back-reference, another was written in full twice and never cached.
C25_Witness ==
    /\ \E i, j \in DOMAIN trace :
          /\ i < j /\ trace[i].sel = "pred" /\ trace[i].inserted
          /\ trace[j].sel = "pred" /\ trace[j].val = trace[i].val
          /\ trace[j].hit
    /\ \E i, j \in DOMAIN trace :
          /\ i < j /\ trace[i].sel = trace[j].sel
          /\ trace[i].val = trace[j].val
          /\ ~trace[i].hit /\ ~trace[j].hit
          /\ trace[i].val \notin Cached(trace[i].sel)

\* The entries of both caches of the encoder, each tagged with its kind.
CacheEntries ==
    UNION { { <<sel, v>> : v \in Cached(sel) } : sel \in CachedKinds }

\* C29: two distinct cached values never map to the same shorthand offset,
\* whether they are in the same cache or one is a type and the other a
\* predicate of the same encoder.
C29_OffsetsDistinct ==
    \A x, y \in CacheEntries :
        CacheOf(x[1])[x[2]] = CacheOf(y[1])[y[2]] => x = y

\* A cached predicate body holds a cached type that starts one byte after
\* it, and the type cache holds two entries.
C29_Witness ==
    /\ \E p \in Cached("pred") : \E t \in Cached("ty") :
          type_shorthands[t] = predicate_shorthands[p] + 1
    /\ Cardinality(Cached("ty")) >= 2

\* The stream positions a payload can start at in the sessions explored.
Positions == base .. StreamEnd

\* C30: a payload of one byte is never cached, at any offset, since
\* start + 0x80 is at least 2^7, and a payload of no byte is never cached
\* either: every cached value has a full encoding of at least two bytes.
C30_CachedAtLeastTwoBytes ==
    /\ \A start \in Positions : \A len \in {0, 1} :
          ~ObviousWin(ShorthandFor(start), Leb128Bits(len))
    /\ \A i \in DOMAIN trace :
          /\ trace[i].inserted => trace[i].len >= 2
          /\ (~trace[i].hit /\ trace[i].len <= 1) =>
                /\ ~trace[i].inserted
                /\ trace[i].val \notin Cached(trace[i].sel)
    /\ \A sel \in CachedKinds : \A v \in Cached(sel) :
          \E i \in DOMAIN trace :
              /\ trace[i].sel = sel /\ trace[i].val = v /\ trace[i].inserted
              /\ trace[i].len >= 2

\* In a stream that starts at offset 0, where shorthands are the smallest,
\* a one-byte type was written in full twice; a two-byte type is cached.
C30_Witness ==
    /\ base = 0
    /\ \E i, j \in DOMAIN trace :
          /\ i < j /\ trace[i].val = trace[j].val /\ trace[i].sel = "ty"
          /\ trace[j].sel = "ty"
          /\ trace[i].len = 1 /\ trace[j].len = 1
          /\ ~trace[i].hit /\ ~trace[j].hit
    /\ \E v \in Cached("ty") : \E i \in DOMAIN trace :
          trace[i].val = v /\ trace[i].inserted /\ trace[i].len = 2

\* The call that cached the value written as back-reference j.
CachingCall(j) ==
    CHOOSE i \in 1 .. j :
        /\ trace[i].sel = trace[j].sel /\ trace[i].val = trace[j].val
        /\ (trace[i].inserted \/ i = j)
        /\ \A k \in 1 .. (i - 1) :
              ~( /\ trace[k].sel = trace[j].sel /\ trace[k].val = trace[j].val
                 /\ trace[k].inserted )

C27_TargetIsPlainRecord ==
    /\ \A sel \in CachedKinds : \A v \in Cached(sel) :
          LET p == CacheOf(sel)[v] - SHORTHAND_OFFSET IN
          /\ InData(p)
          /\ ByteAt(p) = discriminant_value(variant(v))
          /\ ByteAt(p) < SHORTHAND_OFFSET
          /\ ~positioned_at_shorthand(MkDec(p, <<>>, TRUE))
    /\ phase = "decoding" =>
          \A j \in DOMAIN trace :
              trace[j].hit =>
                  LET r == DecodeUnitWith(trace[j].sel, trace[j].pos, <<>>)
                      t == trace[j].sh - SHORTHAND_OFFSET
                      full == DecodeKind(MkDec(t, <<>>, TRUE), trace[j].sel)
                  IN  /\ r.d.ok
                      /\ r.d.seeks # <<>>
                      /\ r.d.seeks[1] = <<trace[j].sel, t>>
                      /\ ~positioned_at_shorthand(MkDec(t, <<>>, TRUE))
                      /\ full.d.ok
                      /\ full.d.pos = t + trace[CachingCall(j)].len
                      /\ r.val = IF trace[j].sel = "ty"
                                 THEN mk_ty(full.val)
                                 ELSE full.val

\* A record that is a back-reference to a predicate body has been decoded,
\* and the stream also holds a back-reference to a type.
C27_Witness ==
    /\ phase = "decoding" /\ dec.idx # 0 /\ dec.ok
    /\ \E j \in SpanEvents(dec.idx) : trace[j].hit /\ trace[j].sel = "pred"
    /\ \E j \in DOMAIN trace : trace[j].hit /\ trace[j].sel = "ty"

\* C28: decoding any record of a stream written by one encoder session
\* terminates.  Every back-reference names the start of a payload that was
\* complete before the back-reference was written, so it moves the cursor
\* to a strictly smaller offset than its own position, and every further
\* back-reference followed from there lies lower still: the decode of each
\* unit of the stream ends, at the unit's end, after following no more
\* back-references than the stream holds.
C28_DecodeTerminates ==
    /\ \A j \in DOMAIN trace :
          trace[j].hit =>
              LET i == CachingCall(j) IN
              /\ trace[i].inserted
              /\ trace[j].sh - SHORTHAND_OFFSET = trace[i].pos
              /\ trace[i].pos < trace[j].pos
              /\ trace[i].pos + trace[i].len <= trace[j].pos
    /\ phase = "decoding" =>
          \A j \in DOMAIN trace :
              LET r == DecodeUnitWith(trace[j].sel, trace[j].pos, <<>>) IN
              /\ r.d.ok
              /\ r.d.pos = trace[j].pos + trace[j].len
              /\ Len(r.d.seeks)
                    <= Cardinality({k \in DOMAIN trace : trace[k].hit})
              /\ \A k \in DOMAIN r.d.seeks :
                    /\ r.d.seeks[k][2] < r.d.pos
                    /\ trace[j].hit => r.d.seeks[k][2] < trace[j].pos
                    /\ k > 1 => r.d.seeks[k] # r.d.seeks[1]

\* A decoded record is a back-reference whose target holds a further
\* back-reference: a chain of two, each link lower than the one before.
C28_Witness ==
    /\ phase = "decoding" /\ dec.idx # 0 /\ dec.ok
    /\ \E j \in DOMAIN trace :
          /\ trace[j].hit /\ trace[j].pos = records[dec.idx].pos
          /\ LET s == DecodeUnitWith(trace[j].sel, trace[j].pos, <<>>).d.seeks
             IN  Len(s) >= 2 /\ s[2][2] < s[1][2] /\ s[1][2] < trace[j].pos

(***************************************************************************)
(* Several decoding threads interning into one table.                      *)
(***************************************************************************)
OnlyThreads ==
    UNCHANGED <<base, buf, type_shorthands, predicate_shorthands, trace,
                records, phase, ty_rcache, dec, session2, tamper, interner,
                arena, matches, doc, mods, diag, fmt>>

\* <Ty as Decodable>::decode, plain branch: thread t hands the decoded kind
\* `k` to mk_ty.
InternCall(t, k) ==
    /\ threads.th[t].pc = "idle"
    /\ threads.calls < MaxCalls
    /\ threads' = [threads EXCEPT !.calls = @ + 1,
                                  !.th[t] = [pc |-> "lookup", payload |-> k,
                                             handle |-> 0, missed |-> FALSE]]
    /\ OnlyThreads

\* The lookup, which needs no exclusive access: a hit returns the entry's
\* handle, a miss sends the thread to the exclusive section.
InternLookup(t) ==
    /\ threads.th[t].pc = "lookup"
    /\ threads.lock = 0
    /\ threads' =
          IF \E h \in DOMAIN threads.table :
                 threads.table[h] = threads.th[t].payload
          THEN [threads EXCEPT
                   !.th[t].pc = "done",
                   !.th[t].handle = HandleOf(threads.table,
                                             threads.th[t].payload)]
          ELSE [threads EXCEPT !.th[t].pc = "wait", !.th[t].missed = TRUE]
    /\ OnlyThreads

\* Thread t obtains exclusive access.
InternAcquire(t) ==
    /\ threads.th[t].pc = "wait"
    /\ threads.lock = 0
    /\ threads' = [threads EXCEPT !.lock = t, !.th[t].pc = "locked"]
    /\ OnlyThreads

\* Thread t inserts or finds under exclusive access, and releases it.
InternInsert(t) ==
    /\ threads.th[t].pc = "locked"
    /\ threads.lock = t
    /\ LET m == insert_or_find(threads.table, threads.th[t].payload) IN
       threads' = [threads EXCEPT !.table = m.table, !.lock = 0,
                                  !.th[t].pc = "done",
                                  !.th[t].handle = m.handle]
    /\ OnlyThreads

\* The call of thread t returns the handle.
InternReturn(t) ==
    /\ threads.th[t].pc = "done"
    /\ threads' = [threads EXCEPT
                      !.log = Append(@, [thread |-> t,
                                         payload |-> threads.th[t].payload,
                                         handle |-> threads.th[t].handle,
                                         missed |-> threads.th[t].missed]),
                      !.th[t] = Idle]
    /\ OnlyThreads

NextThreads ==
    \/ \E t \in Threads : \E k \in InternPayloads : InternCall(t, k)
    \/ \E t \in Threads : InternLookup(t)
    \/ \E t \in Threads : InternAcquire(t)
    \/ \E t \in Threads : InternInsert(t)
    \/ \E t \in Threads : InternReturn(t)

SpecThreads == Init /\ [][NextThreads]_vars

\* The handles the shared interner has given out, with their payloads.
GivenOut ==
    {[payload |-> threads.log[i].payload, handle |-> threads.log[i].handle] :
        i \in DOMAIN threads.log}
    \cup {[payload |-> threads.th[t].payload, handle |-> threads.th[t].handle] :
            t \in {u \in Threads : threads.th[u].pc = "done"}}

\* C21: under any interleaving of the insert-or-find calls that several
\* decoding threads make on the shared interner, the table holds at most
\* one allocation per structural value, and callers with structurally equal
\* payloads receive the same handle, which is the handle of that value.
C21_OneCanonicalAllocation ==
    /\ \A h1, h2 \in DOMAIN threads.table :
          threads.table[h1] = threads.table[h2] => h1 = h2
    /\ \A x \in GivenOut :
          /\ x.handle \in DOMAIN threads.table
          /\ threads.table[x.handle] = x.payload
    /\ \A x, y \in GivenOut : (x.payload = y.payload) <=> (x.handle = y.handle)

\* Two threads missed the lookup of the same value before either had
\* inserted it, and both calls have returned.
C21_Witness ==
    \E i, j \in DOMAIN threads.log :
        /\ threads.log[i].thread # threads.log[j].thread
        /\ threads.log[i].payload = threads.log[j].payload
        /\ threads.log[i].missed /\ threads.log[j].missed
        /\ threads.log[i].handle = threads.log[j].handle

(***************************************************************************)
(* Sessions with arena-allocated slices and allocation ids.                *)
(***************************************************************************)
EncodePredSpansOp(xs) ==
    /\ phase = "encoding"
    /\ Len(records) < MaxOps
    /\ Commit(EncodePredSpanSlice(CurrentEnc, xs), "predspans", xs)

EncodeAllocIdOp(id) ==
    /\ phase = "encoding"
    /\ Len(records) < MaxOps
    /\ Commit(EncodeAllocId(CurrentEnc, id), "allocid", id)

\* The end of the arena decode of record i.
ArenaDecoded(i, r) ==
    /\ r.d.ok
    /\ arena' = AllocPredSpans(arena, i, r)
    /\ Decoded(i, r)

\* A top-level decode of the slice of record i into the arena.
DecodeArenaOp(i) ==
    /\ phase = "decoding"
    /\ records[i].sel = "predspans"
    /\ Len(arena.log) < MaxAllocs
    /\ ArenaDecoded(i, DecodePredSpanSlice(MkDec(records[i].pos, ty_rcache,
                                                 TRUE)))
    /\ UNCHANGED <<base, buf, type_shorthands, predicate_shorthands, trace,
                   records, phase, session2, tamper, interner, threads, matches, doc, mods, diag, fmt>>

\* A top-level decode of the allocation id of record i.
DecodeAllocIdOp(i) ==
    /\ phase = "decoding"
    /\ records[i].sel = "allocid"
    /\ Decoded(i, DecodeAllocId(MkDec(records[i].pos, ty_rcache, TRUE)))
    /\ UNCHANGED <<base, buf, type_shorthands, predicate_shorthands, trace,
                   records, phase, session2, tamper, interner, arena,
                   threads, matches, doc, mods, diag, fmt>>

NextArena ==
    \/ \E xs \in PredSpanUniverse : EncodePredSpansOp(xs)
    \/ \E id \in AllocIds : EncodeAllocIdOp(id)
    \/ Finish
    \/ \E i \in DOMAIN records : DecodeArenaOp(i)
    \/ \E i \in DOMAIN records : DecodeAllocIdOp(i)

SpecArena == Init /\ [][NextArena]_vars

\* The slice of record i decoded by a decoder with an empty position cache.
ArenaDecode(i) == DecodePredSpanSlice(MkDec(records[i].pos, <<>>, TRUE))

\* Every arena decode got a slot of its own, holding the record's elements:
\* no reference was handed out twice.
SeparateAllocations ==
    /\ Len(arena.slots) = Len(arena.log)
    /\ \A k, l \in DOMAIN arena.log :
          k # l => arena.log[k].handle # arena.log[l].handle
    /\ \A k \in DOMAIN arena.log :
          /\ arena.log[k].handle \in DOMAIN arena.slots
          /\ arena.slots[arena.log[k].handle] = records[arena.log[k].rec].val

\* C22 as stated: an arena-only kind is decoded with no interning, no
\* shorthand lookup and no sharing; two decodes of the same bytes give two
\* allocations, and no shorthand is followed and the decoder's position
\* cache is left as it was.
C22_NoCacheConsulted ==
    /\ SeparateAllocations
    /\ phase = "decoding" =>
          \A i \in DOMAIN records :
              records[i].sel = "predspans" =>
                  LET r == ArenaDecode(i) IN
                  /\ r.d.ok
                  /\ r.d.seeks = <<>>
                  /\ r.d.rcache = <<>>

\* C22 amended: the arena-allocated value itself is neither interned nor
\* looked up by a shorthand nor shared: its decode starts with the plain
\* payload, and decoding the same bytes twice yields two separate arena
\* allocations with equal contents.  The values inside it are decoded by
\* the rules of their own kinds: the back-references to predicates and
\* types written inside the record are followed, and the types reached
\* through a shorthand are entered in the decoder's position cache.
C22_ArenaValueNotShared ==
    /\ SeparateAllocations
    /\ phase = "decoding" =>
          \A i \in DOMAIN records :
              records[i].sel = "predspans" =>
                  LET r == ArenaDecode(i) IN
                  /\ r.d.ok
                  /\ r.val = records[i].val
                  /\ r.d.pos = records[i].end
                  /\ Len(r.val) = ByteAt(records[i].pos)
                  /\ \A j \in BackReferences(i) :
                        <<trace[j].sel, trace[j].sh - SHORTHAND_OFFSET>>
                            \in Sought(r.d)
                  /\ \A j \in BackReferences(i) :
                        trace[j].sel = "ty" =>
                            (trace[j].sh - SHORTHAND_OFFSET)
                                \in DOMAIN r.d.rcache
                  /\ \A pos \in DOMAIN r.d.rcache :
                        <<"ty", pos>> \in Sought(r.d)

\* One record was decoded into the arena twice, giving two slots with
\* equal contents, and the types inside it, written as back-references,
\* are in the decoder's position cache.
C22_Witness ==
    /\ phase = "decoding"
    /\ \E k, l \in DOMAIN arena.log :
          /\ k # l /\ arena.log[k].rec = arena.log[l].rec
          /\ arena.log[k].handle # arena.log[l].handle
          /\ arena.slots[arena.log[k].handle]
                 = arena.slots[arena.log[l].handle]
          /\ \E j \in BackReferences(arena.log[k].rec) : trace[j].sel = "ty"
    /\ ty_rcache # <<>>

\* C23: encoding and decoding an allocation id is the hook's work alone.
\* The encoder's state after <AllocId as Encodable>::encode is the state the
\* hook leaves: the record holds the hook's bytes and nothing else, no call
\* of encode_with_shorthand is made and both shorthand caches stay as they
\* were.  The decoder returns what the hook returns, reads the hook's bytes
\* and no other, follows no shorthand, even when the first byte has the
\* high bit set, and leaves the position cache as it was.
C23_AllocIdDelegated ==
    /\ phase = "encoding" =>
          \A id \in AllocIds :
              /\ EncodeAllocId(CurrentEnc, id) = encode_alloc_id(CurrentEnc, id)
              /\ EncodeAllocId(CurrentEnc, id).tsh = type_shorthands
              /\ EncodeAllocId(CurrentEnc, id).psh = predicate_shorthands
              /\ EncodeAllocId(CurrentEnc, id).trace = trace
    /\ \A i \in DOMAIN records :
          records[i].sel = "allocid" =>
              /\ SpanEvents(i) = {}
              /\ phase # "decoding" =>
                    BytesAt(records[i].pos, RecordSize(i))
                        = Leb128(records[i].val)
              /\ phase = "decoding" =>
                    \A rc \in {<<>>, ty_rcache} :
                        LET d == MkDec(records[i].pos, rc, TRUE) IN
                        /\ DecodeAllocId(d).d.ok
                        /\ DecodeAllocId(d).val = records[i].val
                        /\ DecodeAllocId(d).d.pos = records[i].end
                        /\ DecodeAllocId(d).d.rcache = rc
                        /\ DecodeAllocId(d).d.seeks = <<>>
                        /\ DecodeAllocId(d) = decode_alloc_id(d)
    /\ (dec.idx # 0 /\ records[dec.idx].sel = "allocid") =>
          /\ dec.ok /\ dec.val = records[dec.idx].val
          /\ dec.pos = records[dec.idx].end

\* An allocation id whose first byte has the high bit set was written after
\* both caches had entries, and has been decoded, with types in the
\* decoder's position cache.
C23_Witness ==
    /\ phase = "decoding"
    /\ dec.idx # 0 /\ records[dec.idx].sel = "allocid"
    /\ dec.val = 200 /\ dec.ok
    /\ positioned_at_shorthand(MkDec(records[dec.idx].pos, <<>>, TRUE))
    /\ Cached("ty") # {} /\ Cached("pred") # {}
    /\ ty_rcache # <<>>

\* The obvious-win test as it was evaluated in call i.
GuardOf(i) == ShiftGuard(ShorthandFor(trace[i].pos), Leb128Bits(trace[i].len))

\* C31: the shift 1 << leb128_bits is evaluated only when leb128_bits < 64,
\* so the 64-bit shift never overflows: every shift evaluated in a call has
\* an amount below 64, and a payload of len bytes with len * 7 >= 64 is
\* cached without any shift being evaluated.
C31_ShiftGuarded ==
    \A i \in DOMAIN trace :
        (~trace[i].hit /\ trace[i].done) =>
            /\ \A k \in DOMAIN GuardOf(i).shifts : GuardOf(i).shifts[k] < 64
            /\ GuardOf(i).win = trace[i].inserted
            /\ trace[i].len * 7 >= 64 =>
                  /\ GuardOf(i).shifts = <<>>
                  /\ trace[i].inserted
                  /\ trace[i].val \in Cached(trace[i].sel)
            /\ trace[i].len * 7 < 64 =>
                  GuardOf(i).shifts = <<trace[i].len * 7>>

\* A payload of eleven bytes, 77 bits, was cached in a stream that starts
\* high, and a shorter payload went through the shift.
C31_Witness ==
    /\ base > 0
    /\ \E i \in DOMAIN trace :
          /\ trace[i].len = 11 /\ trace[i].inserted
          /\ trace[i].val \in Cached("ty")
    /\ \E i \in DOMAIN trace :
          ~trace[i].hit /\ trace[i].done /\ trace[i].len * 7 < 64

(***************************************************************************)
(* Sessions of binders that share bodies under different bound variables.  *)
(***************************************************************************)
SharedBodyUniverse ==
    { MkBinder(<<0, 2>>, PkObjectSafe), MkBinder(<<1>>, PkObjectSafe),
      MkBinder(<<0, 2>>, PkTypeWF), MkBinder(<<1>>, PkTypeWF) }

NextBinders ==
    \/ \E b \in SharedBodyUniverse : EncodeBinderOp(b)
    \/ Finish
    \/ \E i \in DOMAIN records : DecodeOp(i)

SpecBinders == Init /\ [][NextBinders]_vars

\* Record j holds the body of the earlier record i under other bound
\* variables.
SameBodyOtherVars(i, j) ==
    /\ i < j
    /\ records[i].sel = "binder" /\ records[j].sel = "binder"
    /\ records[i].val.body = records[j].val.body
    /\ records[i].val.bound_vars # records[j].val.bound_vars

\* The binder decoded at record j by a decoder with an empty position
\* cache.
BinderAt(j) == DecodeBinder(MkDec(records[j].pos, <<>>, TRUE))

\* C32 as stated: after Binder(bv1, P), the record of Binder(bv2, P) is bv2
\* in full followed by a back-reference to P's payload, and it decodes to
\* P paired with bv2.
C32_SecondIsBackReference ==
    \A i, j \in DOMAIN records :
        SameBodyOtherVars(i, j) =>
            /\ BodyIsBackReference(j)
            /\ phase = "decoding" =>
                  /\ BinderAt(j).d.ok
                  /\ BinderAt(j).val = records[j].val

\* C32 amended: the predicate cache is keyed by the body alone.  After
\* Binder(bv1, P), the record of Binder(bv2, P) is bv2 in full followed by
\* the body, which is a back-reference to P's payload exactly when P is in
\* the cache, whatever bound variables P was first written under; and the
\* record decodes to P paired with bv2, not bv1.
C32_KeyedByBody ==
    \A i, j \in DOMAIN records :
        SameBodyOtherVars(i, j) =>
            LET bv == records[j].val.bound_vars
                n == Len(BoundVarBytes(bv))
            IN  /\ RecordSize(j) > n
                /\ BytesAt(records[j].pos, n) = BoundVarBytes(bv)
                /\ BodyIsBackReference(j)
                       <=> records[j].val.body \in Cached("pred")
                /\ BodyIsBackReference(j) =>
                      /\ RecordSize(j)
                             = n + Len(Leb128(predicate_shorthands[
                                                  records[j].val.body]))
                      /\ BytesAt(records[j].pos + n, RecordSize(j) - n)
                             = Leb128(predicate_shorthands[records[j].val.body])
                      /\ \E k \in BodyEvents(i) \cup
                                  UNION {BodyEvents(h) : h \in 1 .. (j - 1)} :
                            /\ trace[k].inserted
                            /\ trace[k].val = records[j].val.body
                            /\ predicate_shorthands[records[j].val.body]
                                   = trace[k].pos + SHORTHAND_OFFSET
                /\ phase = "decoding" =>
                      /\ BinderAt(j).d.ok
                      /\ BinderAt(j).val
                             = MkBinder(bv, records[i].val.body)
                      /\ BinderAt(j).val # records[i].val
                      /\ BinderAt(j).d.pos = records[j].end

\* A body written under two bound variables and cached was written again
\* under one, as a back-reference, and that record has been decoded to the
\* body paired with the one bound variable.
C32_Witness ==
    /\ phase = "decoding"
    /\ \E i, j \in DOMAIN records :
          /\ SameBodyOtherVars(i, j)
          /\ BodyIsBackReference(j)
          /\ Len(records[i].val.bound_vars) = 2
          /\ Len(records[j].val.bound_vars) = 1
          /\ dec.idx = j /\ dec.ok
          /\ dec.val = MkBinder(records[j].val.bound_vars, records[i].val.body)

\* The units of the stream that were written in full.
PlainUnits == {j \in DOMAIN trace : ~trace[j].hit /\ trace[j].done}

\* The back-references written inside the payload of unit j.
NestedBackReferences(j) ==
    {k \in DOMAIN trace :
        /\ trace[k].hit
        /\ trace[j].pos < trace[k].pos
        /\ trace[k].pos < trace[j].pos + trace[j].len}

\* The positions of the types that back-references of the stream stand for.
TypeTargets ==
    {trace[k].sh - SHORTHAND_OFFSET :
        k \in {h \in DOMAIN trace : trace[h].hit /\ trace[h].sel = "ty"}}

\* C33 as stated: a type or predicate that is not a shorthand is decoded in
\* place, the cursor ends immediately after the payload, and the decoder's
\* position cache is neither read nor written: no position is looked up and
\* the cache is as it was.
C33_CacheUntouched ==
    phase = "decoding" =>
        \A j \in PlainUnits : \A rc \in {<<>>, ty_rcache} :
            LET r == DecodeUnitWith(trace[j].sel, trace[j].pos, rc) IN
            /\ r.d.ok
            /\ r.d.pos = trace[j].pos + trace[j].len
            /\ r.d.seeks = <<>>
            /\ r.d.rcache = rc

\* C33 amended: a type or predicate that is not a shorthand is decoded in
\* place at the current cursor and the cursor ends immediately after the
\* payload; the value itself is neither looked up in nor entered into the
\* decoder's position cache.  The cache is read and written only for the
\* types written as back-references inside the payload: a payload without
\* back-references leaves it untouched.
C33_DecodedInPlace ==
    phase = "decoding" =>
        \A j \in PlainUnits : \A rc \in {<<>>, ty_rcache} :
            LET d == MkDec(trace[j].pos, rc, TRUE)
                r == DecodeUnitWith(trace[j].sel, trace[j].pos, rc)
                k == DecodeKind(d, trace[j].sel)
            IN  /\ ~positioned_at_shorthand(d)
                /\ r.d.ok
                /\ r.d.pos = trace[j].pos + trace[j].len
                /\ k.d.ok
                /\ r.val = IF trace[j].sel = "ty" THEN mk_ty(k.val) ELSE k.val
                /\ r.d = k.d
                /\ trace[j].pos \notin (DOMAIN r.d.rcache) \ (DOMAIN rc)
                /\ \A pos \in DOMAIN rc :
                      pos \in DOMAIN r.d.rcache /\ r.d.rcache[pos] = rc[pos]
                /\ (DOMAIN r.d.rcache) \ (DOMAIN rc) \subseteq TypeTargets
                /\ \A x \in Sought(r.d) :
                      \E h \in DOMAIN trace :
                          /\ trace[h].hit /\ trace[h].sel = x[1]
                          /\ trace[h].sh - SHORTHAND_OFFSET = x[2]
                /\ NestedBackReferences(j) = {} =>
                      r.d.seeks = <<>> /\ r.d.rcache = rc

\* A record written in full, a type that holds a type written as a
\* back-reference, has been decoded: the nested type is in the position
\* cache and the record's own position is not; a predicate body without
\* back-references is in the stream too.
C33_Witness ==
    /\ phase = "decoding" /\ dec.idx # 0 /\ dec.ok
    /\ \E j \in PlainUnits :
          /\ trace[j].sel = "ty" /\ trace[j].pos = records[dec.idx].pos
          /\ NestedBackReferences(j) # {}
          /\ trace[j].pos \notin DOMAIN ty_rcache
    /\ ty_rcache # <<>>
    /\ \E j \in PlainUnits :
          trace[j].sel = "pred" /\ NestedBackReferences(j) = {}

(***************************************************************************)
(* The lint driver visiting locals, expressions and patterns.              *)
(***************************************************************************)
OnlyMatches ==
    UNCHANGED <<base, buf, type_shorthands, predicate_shorthands, trace,
                records, phase, ty_rcache, dec, session2, tamper, interner,
                arena, threads, doc, mods, diag, fmt>>

Visited(self, op, e, fired) ==
    /\ matches.visits < MaxVisits
    /\ matches' = [self |-> self, visits |-> matches.visits + 1,
                   last |-> [op |-> op, expr |-> e, fired |-> fired,
                             before |-> matches.self.infallible_destructuring_match_linted]]
    /\ OnlyMatches

\* The pass is built for a configured version before the first visit.
Configure(msrv) ==
    /\ matches.visits = 0
    /\ matches.self.msrv # msrv
    /\ matches' = [matches EXCEPT !.self = MatchesNew(msrv)]
    /\ OnlyMatches

CheckExpr(e) == Visited(check_expr(matches.self, e), "check_expr", e, FALSE)

CheckLocal(fired) ==
    Visited(check_local(matches.self, fired), "check_local", NoVisit.expr,
            fired)

CheckPat == Visited(check_pat(matches.self), "check_pat", NoVisit.expr, FALSE)

NextMatches ==
    \/ \E msrv \in BOOLEAN : Configure(msrv)
    \/ \E e \in ExprUniverse : CheckExpr(e)
    \/ \E fired \in BOOLEAN : CheckLocal(fired)
    \/ CheckPat

SpecMatches == Init /\ [][NextMatches]_vars

\* The flag of the pass, and what the last visit was.
Linted == matches.self.infallible_destructuring_match_linted

LastExpr == matches.last.expr

\* The expressions the claim names as resetting: a MatchSource::Normal
\* match, not from an expansion, without a cfg arm (and not in an external
\* macro).
NormalPlainMatch(e) ==
    /\ ~e.in_external_macro /\ e.kind = "match" /\ e.source = "Normal"
    /\ ~e.from_expansion /\ ~e.cfg_arm

\* C34 as stated: the flag becomes true only when check_local's check
\* fires and stays true across check_local calls; check_expr on a Normal
\* match that is not from an expansion and has no cfg arm skips
\* match_single_binding and resets the flag; every other path through
\* check_expr leaves the flag unchanged.
C34_ResetOnNormalMatch ==
    /\ matches.last.op = "check_local" =>
          Linted = (matches.last.before \/ matches.last.fired)
    /\ matches.last.op = "check_pat" => Linted = matches.last.before
    /\ matches.last.op = "check_expr" =>
          IF NormalPlainMatch(LastExpr)
          THEN /\ ~Linted
               /\ matches.last.before =>
                     "match_single_binding" \notin matches.self.ran
          ELSE Linted = matches.last.before

\* C34 amended: the flag becomes true only when check_local's check fires
\* and stays true across check_local and check_pat calls; check_expr on a
\* Normal match whose source text starts with `match`, that is not in an
\* external macro, not from an expansion and has no cfg arm, resets the flag
\* to false, skipping match_single_binding if the flag was set and running
\* it otherwise; every other path through check_expr, the early return for
\* a Normal match whose text does not start with `match` included, leaves
\* the flag unchanged and does not run match_single_binding.
C34_FlagProtocol ==
    /\ matches.last.op = "none" => ~Linted
    /\ matches.last.op = "check_local" =>
          Linted = (matches.last.before \/ matches.last.fired)
    /\ matches.last.op = "check_pat" => Linted = matches.last.before
    /\ matches.last.op = "check_expr" =>
          IF NormalPlainMatch(LastExpr) /\ LastExpr.starts_with_match
          THEN /\ ~Linted
               /\ ("match_single_binding" \in matches.self.ran)
                     <=> ~matches.last.before
          ELSE /\ Linted = matches.last.before
               /\ "match_single_binding" \notin matches.self.ran

\* After two earlier visits had left the flag set, check_expr on a plain
\* match that starts with `match` has reset it and skipped
\* match_single_binding, while running the checks after it.
C34_Witness ==
    /\ matches.visits = 3
    /\ matches.last.op = "check_expr" /\ matches.last.before
    /\ NormalPlainMatch(LastExpr) /\ LastExpr.starts_with_match
    /\ ~Linted
    /\ "match_single_binding" \notin matches.self.ran
    /\ "match_ref_pats" \in matches.self.ran

(***************************************************************************)
(* Closures running inside enter_impl_trait.                               *)
(***************************************************************************)
OnlyDoc ==
    UNCHANGED <<base, buf, type_shorthands, predicate_shorthands, trace,
                records, phase, ty_rcache, dec, session2, tamper, interner,
                arena, threads, matches, mods, diag, fmt>>

\* enter_impl_trait is called, at top level or from a closure.
EnterImplTrait ==
    /\ doc.status = "running"
    /\ Len(doc.stack) < MaxDepth
    /\ doc' = Enter(doc)
    /\ OnlyDoc

\* The code running with the context records a bound for a parameter.
InsertBound(p) ==
    /\ doc.status = "running"
    /\ p \notin doc.impl_trait_bounds
    /\ doc' = [doc EXCEPT !.impl_trait_bounds = @ \cup {p},
                          !.last = [NoCall EXCEPT !.op = "insert"]]
    /\ OnlyDoc

\* The code running with the context takes a parameter's bound out.
RemoveBound(p) ==
    /\ doc.status = "running"
    /\ p \in doc.impl_trait_bounds
    /\ doc' = [doc EXCEPT !.impl_trait_bounds = @ \ {p},
                          !.last = [NoCall EXCEPT !.op = "remove"]]
    /\ OnlyDoc

\* The closure of the innermost call returns r.
ClosureReturns(r) ==
    /\ doc.status = "running"
    /\ doc.stack # <<>>
    /\ doc' = Leave(doc, r)
    /\ OnlyDoc

NextDoc ==
    \/ EnterImplTrait
    \/ \E p \in ImplTraitParams : InsertBound(p)
    \/ \E p \in ImplTraitParams : RemoveBound(p)
    \/ \E r \in ClosureResults : ClosureReturns(r)

SpecDoc == Init /\ [][NextDoc]_vars

\* C35: enter_impl_trait runs f with cx.impl_trait_bounds empty; when f
\* leaves the bounds empty the call returns with the bounds restored to
\* exactly the value they had before the call, for nested calls too, and
\* the frames of the enclosing calls still hold their own values; when f
\* leaves the bounds non-empty the call aborts by the assertion and nothing
\* is restored.
C35_BoundsRestored ==
    /\ doc.last.op = "enter" =>
          /\ doc.impl_trait_bounds = {}
          /\ doc.stack # <<>>
          /\ Frame(doc).old_bounds = doc.last.pre
    /\ doc.last.op = "return" =>
          /\ doc.last.left = {}
          /\ doc.impl_trait_bounds = doc.last.pre
          /\ doc.status = "running"
    /\ doc.last.op = "abort" =>
          /\ doc.last.left # {}
          /\ doc.impl_trait_bounds = doc.last.left
          /\ doc.status = "aborted"
          /\ doc.stack # <<>>
    /\ doc.status = "aborted" <=> doc.last.op = "abort"
    /\ \A k \in DOMAIN doc.stack : doc.stack[k].old_bounds = doc.stack[k].pre

\* A nested call has returned and put back the non-empty bounds that the
\* enclosing closure had recorded, while the enclosing call still holds the
\* non-empty bounds of its caller.
C35_Witness ==
    /\ doc.last.op = "return"
    /\ Len(doc.stack) = 1
    /\ doc.impl_trait_bounds # {}
    /\ doc.stack[1].old_bounds # {}
    /\ doc.stack[1].old_bounds # doc.impl_trait_bounds

(***************************************************************************)
(* Walks of find_nearest_parent_module through a crate.                    *)
(***************************************************************************)
OnlyMods ==
    UNCHANGED <<base, buf, type_shorthands, predicate_shorthands, trace,
                records, phase, ty_rcache, dec, session2, tamper, interner,
                arena, threads, matches, doc, diag, fmt>>

\* The compiler has the definitions of a crate.
LoadCrate(t) ==
    /\ mods.pc = "unloaded"
    /\ mods' = [mods EXCEPT !.tcx = t, !.pc = "idle"]
    /\ OnlyMods

\* find_nearest_parent_module is called for a definition.
FindCall(def_id) ==
    /\ mods.pc \in {"idle", "done"}
    /\ mods' = FindStart(mods, def_id)
    /\ OnlyMods

\* The loop of the call in progress takes one turn.
FindLoop ==
    /\ mods.pc = "loop"
    /\ mods' = FindStep(mods)
    /\ OnlyMods

NextMods ==
    \/ \E t \in DefTrees : LoadCrate(t)
    \/ \E d \in DefIds : FindCall(d)
    \/ FindLoop

SpecMods == Init /\ [][NextMods]_vars

RECURSIVE Ancestors(_, _)
\* The strict ancestors of a definition.
Ancestors(tcx, d) ==
    IF tcx.parent[d] = 0 THEN {}
    ELSE {tcx.parent[d]} \cup Ancestors(tcx, tcx.parent[d])

ModuleAncestors(tcx, d) == { a \in Ancestors(tcx, d) : tcx.kind[a] = "Mod" }

\* The distance of a definition from the crate root.
Depth(tcx, d) == Cardinality(Ancestors(tcx, d))

\* C36: find_nearest_parent_module terminates in a finite parent tree, each
\* turn of its loop moving one definition closer to the root, and returns
\* the definition itself when it is the top-level module, otherwise the
\* nearest strict ancestor whose kind is Mod, and None only when no strict
\* ancestor is a module.
C36_NearestModule ==
    /\ mods.pc = "loop" =>
          /\ mods.current \in DefIds
          /\ mods.steps + Depth(mods.tcx, mods.current)
                = Depth(mods.tcx, mods.def_id)
          /\ \A a \in ModuleAncestors(mods.tcx, mods.def_id) :
                a \in Ancestors(mods.tcx, mods.current)
    /\ mods.pc = "done" =>
          LET ma == ModuleAncestors(mods.tcx, mods.def_id) IN
          /\ mods.steps <= Depth(mods.tcx, mods.def_id)
          /\ is_top_level_module(mods.def_id) => mods.result = mods.def_id
          /\ (~is_top_level_module(mods.def_id) /\ ma # {}) =>
                /\ mods.result \in ma
                /\ \A a \in ma : Depth(mods.tcx, a) <= Depth(mods.tcx, mods.result)
          /\ mods.result = 0 => ma = {}

\* A walk that passed a definition that is no module and stopped at a
\* module below the crate root, the definition asked for being a module
\* itself.
C36_Witness ==
    /\ mods.pc = "done"
    /\ mods.steps = 1
    /\ mods.result # 0
    /\ ~is_top_level_module(mods.result)
    /\ def_kind(mods.tcx, mods.def_id) = "Mod"

(***************************************************************************)
(* Calls of suggest_constraining_type_params.                              *)
(***************************************************************************)
OnlyDiag ==
    UNCHANGED <<base, buf, type_shorthands, predicate_shorthands, trace,
                records, phase, ty_rcache, dec, session2, tamper, interner,
                arena, threads, matches, doc, mods, fmt>>

\* The function is called with a fresh diagnostic.
SuggestCall ==
    /\ diag.pc = "idle"
    /\ \E generics \in GenericsUniverse, reqs \in RequestSeqs :
          diag' = SuggestStart(diag, generics, reqs)
    /\ OnlyDiag

\* The loop takes the next group; the map hands its groups out in an order
\* of its own.
SuggestLoop(param_name) ==
    /\ diag.pc = "loop"
    /\ param_name \in DOMAIN diag.grouped
    /\ diag' = SuggestTurn(diag, param_name)
    /\ OnlyDiag

\* All groups are done.
SuggestReturn ==
    /\ diag.pc = "loop"
    /\ DOMAIN diag.grouped = {}
    /\ diag' = SuggestFinish(diag)
    /\ OnlyDiag

NextDiag ==
    \/ SuggestCall
    \/ \E n \in ParamNames : SuggestLoop(n)
    \/ SuggestReturn

SpecDiag == Init /\ [][NextDiag]_vars

\* The parameter names a call asks about.
Requested(reqs) == { reqs[i].param_name : i \in DOMAIN reqs }

RECURSIVE EditsFor(_, _, _)
\* The edits a call has to collect for the names in ns: the ?Sized bounds
\* of a parameter asked to be Sized, and one restriction for a parameter
\* with any other constraint.
EditsFor(generics, reqs, ns) ==
    IF ns = {} THEN 0
    ELSE LET n == CHOOSE x \in ns : TRUE
             sized == \E i \in DOMAIN reqs :
                         reqs[i].param_name = n /\ reqs[i].sized
             other == \E i \in DOMAIN reqs :
                         reqs[i].param_name = n /\ ~reqs[i].sized
         IN  (IF sized THEN generics.params[n].qsized ELSE 0)
               + (IF other THEN 1 ELSE 0)
               + EditsFor(generics, reqs, ns \ {n})

\* C37: suggest_constraining_type_params returns false with no suggestion
\* attached once a requested parameter name is not among generics.params;
\* otherwise it returns true and has attached one single-span suggestion
\* when exactly one edit was collected, one multipart suggestion with all
\* the edits when more than one was collected, and none when none was.
C37_SuggestionAttached ==
    /\ diag.pc # "done" => diag.err = <<>>
    /\ diag.pc = "done" =>
          LET missing == Requested(diag.requests) \ DOMAIN diag.generics.params
              edits == EditsFor(diag.generics, diag.requests,
                                Requested(diag.requests))
          IN  /\ missing # {} => diag.result = "false" /\ diag.err = <<>>
              /\ missing = {} =>
                    /\ diag.result = "true"
                    /\ Len(diag.suggestions) = edits
                    /\ edits = 0 => diag.err = <<>>
                    /\ edits = 1 =>
                          /\ Len(diag.err) = 1
                          /\ diag.err[1].kind = "span_suggestion_verbose"
                          /\ Len(diag.err[1].parts) = 1
                    /\ edits > 1 =>
                          /\ Len(diag.err) = 1
                          /\ diag.err[1].kind = "multipart_suggestion_verbose"
                          /\ Len(diag.err[1].parts) = edits

\* A call for two parameters that returned true with a multipart
\* suggestion of two ?Sized removals and a restriction.
C37_Witness ==
    /\ diag.pc = "done"
    /\ diag.result = "true"
    /\ Cardinality(Requested(diag.requests)) = 2
    /\ Len(diag.err) = 1
    /\ diag.err[1].kind = "multipart_suggestion_verbose"
    /\ Len(diag.err[1].parts) = 3
    /\ diag.err[1].parts[1].msg # diag.err[1].parts[3].msg

(***************************************************************************)
(* Calls of format_integer_with_underscore_sep.                            *)
(***************************************************************************)
OnlyFmt ==
    UNCHANGED <<base, buf, type_shorthands, predicate_shorthands, trace,
                records, phase, ty_rcache, dec, session2, tamper, interner,
                arena, threads, matches, doc, mods, diag>>

\* A constant is printed: its literal is formatted.
FormatInteger(lit) ==
    /\ fmt' = [pc |-> "done", lit |-> lit, num |-> LiteralText(lit),
               out |-> format_integer_with_underscore_sep(LiteralText(lit))]
    /\ OnlyFmt

NextFmt == \E lit \in Literals : FormatInteger(lit)

SpecFmt == Init /\ [][NextFmt]_vars

NotUnderscore(c) == c # "_"

\* The characters of s other than '_'.
WithoutUnderscores(s) == SelectSeq(s, NotUnderscore)

\* The digits of s to the right of position i.
DigitsAfter(s, i) == Len(WithoutUnderscores(SubSeq(s, i + 1, Len(s))))

\* The size of the groups for a radix prefix.
GroupSize(prefix) == IF prefix \in {<<"0", "b">>, <<"0", "x">>} THEN 4 ELSE 3

\* Octal literals of at most six digits are left alone.
ShortOctal(lit) == lit.prefix = <<"0", "o">> /\ Len(lit.digits) <= 6

\* C38: format_integer_with_underscore_sep only inserts underscores:
\* deleting every '_' from the output gives back the input; the sign and
\* the 0b/0x/0o prefix stand unsplit at the front; the digits are grouped
\* from the right in chunks of 4 (binary, hex) or 3 (decimal, octal), so
\* an underscore stands exactly where a positive multiple of the chunk
\* size of digits follows and a digit precedes; an octal literal with at
\* most 6 digits after the prefix is returned unchanged.
C38_OnlyUnderscores ==
    fmt.pc = "done" =>
       LET lit == fmt.lit
           front == lit.sign \o lit.prefix
           k == GroupSize(lit.prefix)
           tail == SubSeq(fmt.out, Len(front) + 1, Len(fmt.out))
       IN  /\ WithoutUnderscores(fmt.out) = fmt.num
           /\ Len(fmt.out) >= Len(front)
           /\ SubSeq(fmt.out, 1, Len(front)) = front
           /\ ShortOctal(lit) => fmt.out = fmt.num
           /\ ~ShortOctal(lit) =>
                 /\ \A i \in DOMAIN tail :
                       tail[i] = "_" =>
                          /\ i > 1
                          /\ DigitsAfter(tail, i) > 0
                          /\ DigitsAfter(tail, i) % k = 0
                          /\ tail[i - 1] # "_"
                 /\ \A i \in DOMAIN tail :
                       (/\ tail[i] # "_"
                        /\ DigitsAfter(tail, i) > 0
                        /\ DigitsAfter(tail, i) % k = 0) =>
                          tail[i + 1] = "_"

\* A negative octal literal of more than six digits whose digits do not
\* fill the leftmost group.
C38_Witness ==
    /\ fmt.pc = "done"
    /\ fmt.lit.sign = <<"-">>
    /\ fmt.lit.prefix = <<"0", "o">>
    /\ Len(fmt.lit.digits) = 7
    /\ fmt.out = <<"-", "0", "o", "1", "_", "2", "3", "4", "_", "5", "6", "7">>
====
